---- MODULE Spec2Model ----
(***************************************************************************)
(* Model of the reconciliation engine of Analisa-cupom (src/logic.py):     *)
(* the ledger-row classifier, the ledger-driven classification run, the    *)
(* interval extraction, the discrepancy check, the set comparison and the  *)
(* single-series ledger analysis; of the table loader and the header       *)
(* discovery; of the parser of the isql output (src/firebird_isql.py); and *)
(* of the runs started from the window (src/app.py).                       *)
(*                                                                         *)
(* Strings of digits are sequences of digits (<<1, 0>> is "10"); the       *)
(* conversions int() and str() are computed on them.  Python's None is the *)
(* value None below.                                                       *)
(***************************************************************************)
EXTENDS Integers, Sequences, FiniteSets, TLC

VARIABLES
    op,                    \* the entry point that was called
    pc,                    \* position inside that entry point
    lista_series,          \* argument lista_series (a Python list)
    resultados,            \* rows returned by the ledger query of the current document
    cupom,                 \* document of the current call / loop iteration
    serie_origem,          \* series tag the input line carried, or None
    resultados_por_serie,  \* dict: series -> the four disposition lists
    tipo,                  \* config['tipo']: "nuvem" (PostgreSQL) or "local" (Firebird via isql)
    texto_bruto,           \* the pasted text, a sequence of lines
    cupons_com_serie,      \* dict document -> series tag, in insertion order
    fila,                  \* what the for loop has still to visit
    falhas,                \* the failures raised so far: document and cause
    consultas,             \* the numero_nf of every query sent to the ledger, in order
    resultado,             \* the dict the entry point returned, None before it returns
    tabela,                \* data rows of the SEFAZ table, below the header found
    tem_intervalos,        \* the header found has Inicial, Final and Serie
    serie_alvo,            \* argument serie_alvo
    linha_atual,           \* how many rows the loop of _ler_sefaz has visited
    documentos,            \* the set _ler_sefaz builds
    novos,                 \* what the row visited last added to it
    tabela_relatorio,      \* data rows of the status table, below the header found
    docs_sefaz,            \* the authority set read by _ler_sefaz
    relatorio_sistema,     \* dict document -> status read by _ler_relatorio
    pendentes,             \* the documents a loop over a set has still to visit
    listas,                \* the local result lists of the entry point running
    arquivo_a,             \* the two files of the set comparison
    arquivo_b,
    execucoes,             \* the runs started from the window: arguments, locals, position
    empresas_disponiveis,  \* App.empresas_disponiveis
    empresas_selecionadas, \* App.empresas_selecionadas
    temp_excel,            \* content of <tempdir>/_temp_db_analise.xlsx
    output,                \* stdout of isql, split at the newlines
    lines,                 \* the lines the loop of _parse_list_output has still to visit
    rows,                  \* the records it has flushed
    current_row,           \* the record it is building
    filepath,              \* the file _carregar_dados_brutos is given: what it is and what can decode it
    erros,                 \* the failures it has collected, one per strategy tried
    carregado,             \* the strategy whose table it returned, None before
    df,                    \* the raw table _encontrar_cabecalho is given, a sequence of rows of cells
    colunas_obrigatorias,  \* the keywords it looks for
    idx,                   \* its loop variable, from 0
    novo_header,           \* the column labels it returned
    novo_df,               \* the data rows it returned
    colunas                \* the columns a reader has picked for its roles

varsRun == <<tipo, texto_bruto, cupons_com_serie, fila, falhas, consultas>>

varsChamada == <<lista_series, resultados, cupom, serie_origem, resultados_por_serie>>

varsSefaz == <<tabela, tem_intervalos, serie_alvo, linha_atual, documentos, novos>>

varsArquivos ==
    <<tabela_relatorio, docs_sefaz, relatorio_sistema, pendentes, listas, arquivo_a, arquivo_b>>

varsGui == <<execucoes, empresas_disponiveis, empresas_selecionadas, temp_excel>>

\* the state outside the reconciliation engine
varsIsql == <<output, lines, rows, current_row>>

varsTabela ==
    <<filepath, erros, carregado, df, colunas_obrigatorias, idx, novo_header, novo_df,
      colunas>>

varsOutros == <<varsGui, varsIsql, varsTabela>>

vars == <<op, pc, resultado, varsChamada, varsRun, varsSefaz, varsArquivos, varsOutros>>

----------------------------------------------------------------------------
(* Python values *)

None == "<None>"

\* bool(v) of a str-or-None value
Truthy(v) == v /= None /\ v /= ""

\* str.strip() on the key values of the model
Strip(s) == IF s = " " THEN "" ELSE s

\* str(v)
StrDe(v) == IF v = None THEN "None" ELSE v

----------------------------------------------------------------------------
(* Ledger rows: (cod_empresa, numero_nf, nfe_chave, nfe_status,            *)
(* nfe_contingencia, cancelada, serie_nf, nfe_cod_resp)                    *)

Series == {"1", "2"}
Chaves == {None, " ", "K"}
Statuses == {"A", "C", "I", "X", None}
CodResps == {"100", "E0001", "101", None}

Registros ==
    [cod_empresa : {"E1"}, nfe_chave : Chaves, nfe_status : Statuses,
     serie_nf : Series, nfe_cod_resp : CodResps]

\* the rows of the answers that hold several rows for one document
RegistrosRepetidos ==
    [cod_empresa : {"E1"}, nfe_chave : Chaves, nfe_status : {"A", "C", "X"},
     serie_nf : Series, nfe_cod_resp : {"100", None}]

MaxRows == 2

SeqAte(S, n) == UNION {[1..k -> S] : k \in 0..n}

\* cursor.fetchall(): no row, one row, or up to MaxRows rows
RespostasPossiveis ==
    {<<>>} \cup {<<r>> : r \in Registros}
           \cup UNION {[1..k -> RegistrosRepetidos] : k \in 2..MaxRows}

----------------------------------------------------------------------------
(* _processar_resultados_analise *)

ListasVazias ==
    [para_inutilizar |-> <<>>, autorizadas |-> <<>>,
     canceladas |-> <<>>, ja_inutilizadas |-> <<>>]

NomesListas == {"para_inutilizar", "autorizadas", "canceladas", "ja_inutilizadas"}

\* if serie not in resultados_por_serie: resultados_por_serie[serie] = {...}
InicializarSerie(rps, s) ==
    IF s \in DOMAIN rps THEN rps
    ELSE [k \in (DOMAIN rps) \cup {s} |-> IF k = s THEN ListasVazias ELSE rps[k]]

Anexar(rps, s, lista, item) ==
    [InicializarSerie(rps, s) EXCEPT ![s][lista] = Append(@, item)]

ItemNaoEncontrado(c, so) ==
    [cupom |-> c, empresa |-> "N/A", motivo |-> <<"Nao encontrado no BD">>,
     serie_origem |-> so]

\* for serie in series_para_adicionar: ... append
RECURSIVE AdicionarNaoEncontrado(_, _, _, _)
AdicionarNaoEncontrado(rps, series_para_adicionar, c, so) ==
    IF series_para_adicionar = <<>> THEN rps
    ELSE AdicionarNaoEncontrado(
             Anexar(rps, Head(series_para_adicionar), "para_inutilizar",
                    ItemNaoEncontrado(c, so)),
             Tail(series_para_adicionar), c, so)

\* Deduplication: prefer the first row whose nfe_chave is non-empty
ComChave(rs) == SelectSeq(rs, LAMBDA r : Truthy(r.nfe_chave) /\ Strip(StrDe(r.nfe_chave)) /= "")

DeduplicarPrimeiro(rs) == rs[1]

Deduplicar(rs) ==
    IF Len(rs) > 1
    THEN IF ComChave(rs) /= <<>> THEN ComChave(rs)[1] ELSE rs[1]
    ELSE rs[1]

\* the if/elif chain: which list the row goes to
DisposicaoE0001Primeiro(r) ==
    IF StrDe(r.nfe_cod_resp) = "E0001" THEN "para_inutilizar"
    ELSE IF r.nfe_status = "A" \/ (Truthy(r.nfe_cod_resp) /\ StrDe(r.nfe_cod_resp) = "100")
    THEN "autorizadas"
    ELSE IF r.nfe_status = "C" THEN "canceladas"
    ELSE IF r.nfe_status = "I" THEN "ja_inutilizadas"
    ELSE "para_inutilizar"

DisposicaoStatusPrimeiro(r) ==
    IF r.nfe_status = "A" THEN "autorizadas"
    ELSE IF r.nfe_status = "C" THEN "canceladas"
    ELSE IF r.nfe_status = "I" THEN "ja_inutilizadas"
    ELSE IF Truthy(r.nfe_cod_resp) /\ StrDe(r.nfe_cod_resp) = "100" THEN "autorizadas"
    ELSE "para_inutilizar"

Disposicao(r) ==
    IF r.nfe_status = "A" \/ (Truthy(r.nfe_cod_resp) /\ StrDe(r.nfe_cod_resp) = "100")
    THEN "autorizadas"
    ELSE IF r.nfe_status = "C" THEN "canceladas"
    ELSE IF r.nfe_status = "I" THEN "ja_inutilizadas"
    ELSE IF StrDe(r.nfe_cod_resp) = "E0001" THEN "para_inutilizar"
    ELSE "para_inutilizar"

\* x or d
Ou(x, d) == IF Truthy(x) THEN x ELSE d

Motivo(r) ==
    IF r.nfe_status = "A" \/ (Truthy(r.nfe_cod_resp) /\ StrDe(r.nfe_cod_resp) = "100")
    THEN <<"Autorizada (Cod: ", Ou(r.nfe_cod_resp, "100")>>
    ELSE IF r.nfe_status = "C" THEN <<"Cancelada (Cod: ", Ou(r.nfe_cod_resp, "101")>>
    ELSE IF r.nfe_status = "I" THEN <<"Ja Inutilizada (Status: I)">>
    ELSE IF StrDe(r.nfe_cod_resp) = "E0001" THEN <<"Erro de Envio (E0001)">>
    ELSE IF Truthy(r.nfe_cod_resp)
         THEN <<"Status: ", Ou(r.nfe_status, "N/A"), ", Resp: ", r.nfe_cod_resp>>
         ELSE <<"Status: ", Ou(r.nfe_status, "N/A")>>

ItemClassificado(r, c, so) ==
    [cupom |-> c, empresa |-> r.cod_empresa, motivo |-> Motivo(r),
     status_real |-> r.nfe_status, cod_resp |-> r.nfe_cod_resp,
     serie_origem |-> so, serie_bd |-> StrDe(r.serie_nf)]

SeriesParaAdicionarSempreTodas(so, ls) == ls

SeriesParaAdicionar(so, ls) == IF Truthy(so) THEN <<so>> ELSE ls

ProcessarResultadosNaSerieDeOrigem(rs, c, so, ls, rps) ==
    IF rs = <<>>
    THEN AdicionarNaoEncontrado(rps, SeriesParaAdicionar(so, ls), c, so)
    ELSE LET registro == Deduplicar(rs)
         IN  Anexar(rps, IF Truthy(so) THEN so ELSE StrDe(registro.serie_nf),
                    Disposicao(registro), ItemClassificado(registro, c, so))

ProcessarResultados(rs, c, so, ls, rps) ==
    IF rs = <<>>
    THEN AdicionarNaoEncontrado(rps, SeriesParaAdicionar(so, ls), c, so)
    ELSE LET registro == Deduplicar(rs)
         IN  Anexar(rps, StrDe(registro.serie_nf), Disposicao(registro),
                    ItemClassificado(registro, c, so))

----------------------------------------------------------------------------
(* Documents: the text before the digits (a list prefix such as "24. ")    *)
(* and the digits                                                          *)

Doc(pre, num) == [pre |-> pre, num |-> num]

\* int(x) of a string of digits
RECURSIVE IntDe(_)
IntDe(num) ==
    IF num = <<>> THEN 0 ELSE 10 * IntDe(SubSeq(num, 1, Len(num) - 1)) + num[Len(num)]

ZfillSemPreencher(num, largura) == num

\* str.zfill(largura) of a string of digits
Zfill(num, largura) ==
    IF Len(num) >= largura THEN num ELSE [i \in 1..(largura - Len(num)) |-> 0] \o num

\* cupom.zfill(9), lines 1339 and 1377
DigitosNumeroNf == 9

\* int(cupom) succeeds: nothing but digits, and at least one
EhInteiro(c) == c.pre = "" /\ c.num /= <<>>

\* the variables of the classification run, when another entry point runs
RunParado ==
    /\ tipo = None
    /\ texto_bruto = <<>>
    /\ cupons_com_serie = <<>>
    /\ fila = <<>>
    /\ falhas = {} /\ consultas = <<>>
    /\ resultado = None

ChamadaParada ==
    /\ lista_series = <<>>
    /\ resultados = <<>>
    /\ cupom = None
    /\ serie_origem = None
    /\ resultados_por_serie = <<>>

SefazParado ==
    /\ tabela = <<>>
    /\ tem_intervalos = FALSE
    /\ serie_alvo = None
    /\ linha_atual = 0
    /\ documentos = {}
    /\ novos = {}

ArquivosParados ==
    /\ tabela_relatorio = <<>>
    /\ docs_sefaz = {}
    /\ relatorio_sistema = <<>>
    /\ pendentes = {}
    /\ listas = None
    /\ arquivo_a = None
    /\ arquivo_b = None

\* the window with no run started
GuiParada ==
    /\ execucoes = <<>>
    /\ empresas_disponiveis = <<>>
    /\ empresas_selecionadas = <<>>
    /\ temp_excel = None

\* an empty dict
DictVazio == [k \in {} |-> <<>>]

\* no isql output being parsed
IsqlParado ==
    /\ output = <<>>
    /\ lines = <<>>
    /\ rows = <<>>
    /\ current_row = DictVazio

\* no table being loaded, no header being looked for
TabelaParada ==
    /\ filepath = None
    /\ erros = <<>>
    /\ carregado = None /\ colunas = None
    /\ df = <<>>
    /\ colunas_obrigatorias = <<>>
    /\ idx = 0
    /\ novo_header = <<>>
    /\ novo_df = <<>>

OutrosParados == GuiParada /\ IsqlParado /\ TabelaParada

----------------------------------------------------------------------------
(* One call of _processar_resultados_analise on every combination of rows, *)
(* series tag and series filter                                            *)

ListasDeSeries == {<<"1">>, <<"1", "2">>, <<"2", "2">>}

CupomAnterior == Doc("", <<5>>)
CupomAtual == Doc("", <<7>>)

\* a dict that an earlier iteration of the loop has already written to
RpsAnterior ==
    Anexar(<<>>, "1", "autorizadas",
           ItemClassificado([cod_empresa |-> "E1", nfe_chave |-> "K", nfe_status |-> "A",
                             serie_nf |-> "1", nfe_cod_resp |-> "100"],
                            CupomAnterior, None))

InitProc ==
    /\ op = "processar"
    /\ pc = "chamada"
    /\ lista_series \in ListasDeSeries
    /\ resultados \in RespostasPossiveis
    /\ cupom = CupomAtual
    /\ serie_origem \in Series \cup {None}
    /\ resultados_por_serie \in {<<>>, RpsAnterior}
    /\ RunParado
    /\ SefazParado
    /\ ArquivosParados
    /\ OutrosParados

Processar ==
    /\ op = "processar"
    /\ pc = "chamada"
    /\ resultados_por_serie' =
           ProcessarResultados(resultados, cupom, serie_origem, lista_series,
                               resultados_por_serie)
    /\ pc' = "retornou"
    /\ UNCHANGED <<op, lista_series, resultados, cupom, serie_origem>>
    /\ UNCHANGED <<varsRun, resultado>>
    /\ UNCHANGED <<varsSefaz, varsArquivos>>
    /\ UNCHANGED varsOutros

NextProc == Processar

SpecProc == InitProc /\ [][NextProc]_vars

----------------------------------------------------------------------------
(* _extrair_cupons_com_serie: a line is the text before the digits, the    *)
(* trailing digits, and the series of its "|SERIE_" tag (None: no tag)     *)

Linha(pre, num, tag) == [pre |-> pre, num |-> num, tag |-> tag]

Linhas ==
    {Linha("", <<9>>, None), Linha("", <<1, 0>>, None), Linha("", <<0, 9>>, None),
     Linha("", <<9>>, "1"), Linha("", <<9>>, "2"), Linha("", <<1, 0>>, "2"),
     Linha("24. ", <<1, 0>>, "1")}

MaxLinhas == 2

AtribuirSoSeNovo(d, c, s) ==
    IF \E i \in 1..Len(d) : d[i].cupom = c THEN d
    ELSE Append(d, [cupom |-> c, serie |-> s])

\* cupons_com_serie[c] = s on a dict kept as the sequence of its items
Atribuir(d, c, s) ==
    IF \E i \in 1..Len(d) : d[i].cupom = c
    THEN [i \in 1..Len(d) |-> IF d[i].cupom = c THEN [cupom |-> c, serie |-> s] ELSE d[i]]
    ELSE Append(d, [cupom |-> c, serie |-> s])

RECURSIVE ExtrairCuponsComSerie(_)
ExtrairCuponsComSerie(texto) ==
    IF texto = <<>> THEN <<>>
    ELSE LET antes == ExtrairCuponsComSerie(SubSeq(texto, 1, Len(texto) - 1))
             linha == texto[Len(texto)]
         IN  IF linha.tag /= None
             THEN Atribuir(antes, Doc(linha.pre, linha.num), linha.tag)
             ELSE IF linha.num /= <<>>
                  THEN Atribuir(antes, Doc("", linha.num), None)
                  ELSE antes

\* sorted(cupons_com_serie.items(), key=lambda x: int(x[0])): stable
RECURSIVE InserirOrdenado(_, _)
InserirOrdenado(ordenada, x) ==
    IF ordenada = <<>> THEN <<x>>
    ELSE IF IntDe(ordenada[Len(ordenada)].cupom.num) <= IntDe(x.cupom.num)
         THEN Append(ordenada, x)
         ELSE Append(InserirOrdenado(SubSeq(ordenada, 1, Len(ordenada) - 1), x),
                     ordenada[Len(ordenada)])

RECURSIVE OrdenarItens(_)
OrdenarItens(d) ==
    IF d = <<>> THEN <<>>
    ELSE InserirOrdenado(OrdenarItens(SubSeq(d, 1, Len(d) - 1)), d[Len(d)])

----------------------------------------------------------------------------
(* executar_analise_db_avancada *)

ElementosDe(ls) == {ls[i] : i \in 1..Len(ls)}

Reg(chave, status, serie) ==
    [cod_empresa |-> "E1", nfe_chave |-> chave, nfe_status |-> status,
     serie_nf |-> serie, nfe_cod_resp |-> None]

\* what the ledger may answer to the query of one document: the rows have a
\* series of the filter (WHERE serie_nf IN ...)
RespostasDoLedger(ls) ==
    {<<>>}
    \cup {<<Reg("K", st, s)>> : st \in {"A", "X"}, s \in ElementosDe(ls)}
    \cup {<<Reg(None, "A", s1), Reg("K", "X", s2)>> : s1 \in ElementosDe(ls), s2 \in ElementosDe(ls)}

ErroFatal == [erro |-> "Erro na analise", total_processados |-> 0]

\* an exception raised while talking to the ledger: for the document being
\* queried (Doc("", <<>>): none yet), either the query itself failed or the
\* ledger could not be reached (psycopg2.connect raising, isql exiting with a
\* non-zero status: unavailable server, wrong user or password)
Falha(c, causa) == [cupom |-> c, causa |-> causa]

Causas == {"consulta", "conexao"}

InitAvancada ==
    /\ op = "avancada"
    /\ pc = "inicio"
    /\ tipo \in {"nuvem", "local"}
    /\ texto_bruto \in SeqAte(Linhas, MaxLinhas)
    /\ lista_series \in ListasDeSeries
    /\ resultados = <<>>
    /\ cupom = None
    /\ serie_origem = None
    /\ resultados_por_serie = <<>>
    /\ cupons_com_serie = <<>>
    /\ fila = <<>>
    /\ falhas = {} /\ consultas = <<>>
    /\ resultado = None
    /\ SefazParado
    /\ ArquivosParados
    /\ OutrosParados

\* lines 1293-1299: extract, and return at once when nothing was extracted
Extrair ==
    /\ op = "avancada"
    /\ pc = "inicio"
    /\ cupons_com_serie' = ExtrairCuponsComSerie(texto_bruto)
    /\ IF cupons_com_serie' = <<>>
       THEN /\ resultado' = [erro |-> "Nenhum cupom valido", total_processados |-> 0]
            /\ pc' = "retornou"
       ELSE /\ resultado' = resultado
            /\ pc' = "conectar"
    /\ UNCHANGED <<op, lista_series, resultados, cupom, serie_origem, resultados_por_serie>>
    /\ UNCHANGED <<tipo, texto_bruto, fila, falhas, consultas>>
    /\ UNCHANGED <<varsSefaz, varsArquivos>>
    /\ UNCHANGED varsOutros

\* lines 1310-1321 and 1337/1373: open the connection (PostgreSQL only), then
\* sort the items by int(cupom); either may raise, which ends the run
Conectar ==
    /\ op = "avancada"
    /\ pc = "conectar"
    /\ \E conectou \in BOOLEAN :
          /\ (tipo = "local") => conectou
          /\ falhas' = IF conectou THEN falhas
                       ELSE falhas \cup {Falha(Doc("", <<>>), "conexao")}
          /\ IF conectou /\ \A i \in 1..Len(cupons_com_serie) : EhInteiro(cupons_com_serie[i].cupom)
             THEN /\ fila' = OrdenarItens(cupons_com_serie)
                  /\ pc' = "loop"
                  /\ resultado' = resultado
             ELSE /\ fila' = fila
                  /\ pc' = "retornou"
                  /\ resultado' = ErroFatal
    /\ UNCHANGED <<op, lista_series, resultados, cupom, serie_origem, resultados_por_serie>>
    /\ UNCHANGED <<tipo, texto_bruto, cupons_com_serie, consultas>>
    /\ UNCHANGED <<varsSefaz, varsArquivos>>
    /\ UNCHANGED varsOutros

\* one iteration of the loop whose query returns rows: lines 1339-1346
\* (PostgreSQL), 1377-1404 (isql)
ConsultarCupom ==
    /\ op = "avancada"
    /\ pc = "loop"
    /\ fila /= <<>>
    /\ \E rs \in RespostasDoLedger(lista_series) :
          /\ resultados' = rs
          /\ cupom' = Head(fila).cupom
          /\ serie_origem' = Head(fila).serie
          /\ resultados_por_serie' =
                 ProcessarResultados(rs, Head(fila).cupom, Head(fila).serie,
                                     lista_series, resultados_por_serie)
    /\ fila' = Tail(fila)
    /\ consultas' = Append(consultas, Zfill(Head(fila).cupom.num, DigitosNumeroNf))
    /\ UNCHANGED <<op, pc, lista_series, tipo, texto_bruto, cupons_com_serie, falhas, resultado>>
    /\ UNCHANGED <<varsSefaz, varsArquivos>>
    /\ UNCHANGED varsOutros

\* one iteration of the loop whose query raises, whatever the cause: under
\* PostgreSQL nothing catches it before the outer except (1418-1422), which
\* ends the run; under isql, which connects anew for every query, the except
\* of lines 1406-1409 logs it and the loop goes on
ConsultaFalha ==
    /\ op = "avancada"
    /\ pc = "loop"
    /\ fila /= <<>>
    /\ resultados' = <<>>
    /\ cupom' = Head(fila).cupom
    /\ serie_origem' = Head(fila).serie
    /\ \E causa \in Causas : falhas' = falhas \cup {Falha(Head(fila).cupom, causa)}
    /\ consultas' = Append(consultas, Zfill(Head(fila).cupom.num, DigitosNumeroNf))
    /\ IF tipo = "local"
       THEN /\ fila' = Tail(fila)
            /\ UNCHANGED <<resultado, pc>>
       ELSE /\ resultado' = ErroFatal
            /\ pc' = "retornou"
            /\ fila' = fila
    /\ UNCHANGED <<op, lista_series, resultados_por_serie, tipo, texto_bruto, cupons_com_serie>>
    /\ UNCHANGED <<varsSefaz, varsArquivos>>
    /\ UNCHANGED varsOutros

\* lines 1411-1416
Retornar ==
    /\ op = "avancada"
    /\ pc = "loop"
    /\ fila = <<>>
    /\ resultado' = [total_processados |-> Len(cupons_com_serie),
                     resultados_por_serie |-> resultados_por_serie,
                     erro |-> None]
    /\ pc' = "retornou"
    /\ UNCHANGED <<op, lista_series, resultados, cupom, serie_origem, resultados_por_serie>>
    /\ UNCHANGED <<tipo, texto_bruto, cupons_com_serie, fila, falhas, consultas>>
    /\ UNCHANGED <<varsSefaz, varsArquivos>>
    /\ UNCHANGED varsOutros

NextAvancada == Extrair \/ Conectar \/ ConsultarCupom \/ ConsultaFalha \/ Retornar

SpecAvancada == InitAvancada /\ [][NextAvancada]_vars

----------------------------------------------------------------------------
(* _ler_sefaz: the loop over the data rows.  A cell is the text pandas      *)
(* hands over: an integer ("10"), a decimal ("10.2") or another text       *)
(* ("" , "nan", "abc", "inf")                                               *)

Num(n) == [k |-> "int", n |-> n]
Dec(n, f) == [k |-> "dec", n |-> n, f |-> f]
Texto(t) == [k |-> "texto", t |-> t]

\* int(float(val)): the value, truncated, or the exception raised
IntFloat(cel) ==
    IF cel.k = "int" THEN [exc |-> None, n |-> cel.n]
    ELSE IF cel.k = "dec" THEN [exc |-> None, n |-> cel.n]
    ELSE IF cel.t = "inf" THEN [exc |-> "OverflowError", n |-> 0]
    ELSE [exc |-> "ValueError", n |-> 0]

\* not val or val.lower() == 'nan'
CelulaVazia(cel) == cel.k = "texto" /\ cel.t \in {"", "nan"}

\* str(n) of a natural number
RECURSIVE StrInt(_)
StrInt(n) == IF n < 10 THEN <<n>> ELSE Append(StrInt(n \div 10), n % 10)

IntervaloSemFinal(inicial_num, final_num) == inicial_num .. (final_num - 1)

\* range(inicial_num, final_num + 1)
Intervalo(inicial_num, final_num) == inicial_num .. final_num

LinhaTabela(serie, inicial, final) == [serie |-> serie, inicial |-> inicial, final |-> final]

\* the body of the loop for one row: the documents it adds, or the exception
\* that leaves the loop (only ValueError and TypeError are caught per row)
DocsDaLinha(row, alvo, tem) ==
    IF row.serie /= alvo \/ CelulaVazia(row.inicial) THEN [exc |-> None, docs |-> {}]
    ELSE LET ini == IntFloat(row.inicial)
             fim == IntFloat(row.final)
         IN  IF ini.exc = "ValueError" THEN [exc |-> None, docs |-> {}]
             ELSE IF ini.exc /= None THEN [exc |-> ini.exc, docs |-> {}]
             ELSE IF tem /\ ~CelulaVazia(row.final)
                  THEN IF fim.exc = None
                       THEN [exc |-> None, docs |-> {StrInt(n) : n \in Intervalo(ini.n, fim.n)}]
                       ELSE IF fim.exc = "ValueError"
                            THEN [exc |-> None, docs |-> {StrInt(ini.n)}]
                            ELSE [exc |-> fim.exc, docs |-> {}]
                  ELSE [exc |-> None, docs |-> {StrInt(ini.n)}]

\* the whole of _ler_sefaz on the data rows
RECURSIVE LerSefaz(_, _, _)
LerSefaz(tab, alvo, tem) ==
    IF tab = <<>> THEN [exc |-> None, docs |-> {}]
    ELSE LET antes == LerSefaz(SubSeq(tab, 1, Len(tab) - 1), alvo, tem)
             esta == DocsDaLinha(tab[Len(tab)], alvo, tem)
         IN  IF antes.exc /= None THEN antes
             ELSE IF esta.exc /= None THEN esta
             ELSE [exc |-> None, docs |-> antes.docs \cup esta.docs]

CelulasInicial == {Num(8), Num(10), Dec(9, 7), Texto("nan"), Texto("abc"), Texto("inf")}
CelulasFinal == {Num(9), Num(11), Dec(10, 2), Texto(""), Texto("abc"), Texto("inf")}

LinhasTabela ==
    {LinhaTabela(s, i, f) : s \in Series, i \in CelulasInicial, f \in CelulasFinal}

MaxLinhasTabela == 2

InitSefaz ==
    /\ op = "ler_sefaz"
    /\ pc = "lendo"
    /\ tabela \in SeqAte(LinhasTabela, MaxLinhasTabela)
    /\ tem_intervalos \in BOOLEAN
    /\ serie_alvo = "1"
    /\ linha_atual = 0
    /\ documentos = {}
    /\ novos = {}
    /\ resultado = None
    /\ ChamadaParada
    /\ tipo = None /\ texto_bruto = <<>> /\ cupons_com_serie = <<>> /\ fila = <<>> /\ falhas = {} /\ consultas = <<>>
    /\ ArquivosParados
    /\ OutrosParados

\* lines 238-273: one row
LerLinha ==
    /\ op = "ler_sefaz"
    /\ pc = "lendo"
    /\ linha_atual < Len(tabela)
    /\ LET r == DocsDaLinha(tabela[linha_atual + 1], serie_alvo, tem_intervalos)
       IN  IF r.exc = None
           THEN /\ documentos' = documentos \cup r.docs
                /\ novos' = r.docs
                /\ linha_atual' = linha_atual + 1
                /\ UNCHANGED <<pc, resultado>>
           ELSE /\ pc' = "levantou"
                /\ resultado' = "Erro ao ler arquivo SEFAZ"
                /\ linha_atual' = linha_atual + 1
                /\ UNCHANGED <<documentos, novos>>
    /\ UNCHANGED <<op, tabela, tem_intervalos, serie_alvo>>
    /\ UNCHANGED <<varsChamada, tipo, texto_bruto, cupons_com_serie, fila, falhas, consultas, varsArquivos>>
    /\ UNCHANGED varsOutros

\* line 275
RetornarDocumentos ==
    /\ op = "ler_sefaz"
    /\ pc = "lendo"
    /\ linha_atual = Len(tabela)
    /\ pc' = "retornou"
    /\ resultado' = documentos
    /\ UNCHANGED <<op, varsSefaz>>
    /\ UNCHANGED <<varsChamada, tipo, texto_bruto, cupons_com_serie, fila, falhas, consultas, varsArquivos>>
    /\ UNCHANGED varsOutros

NextSefaz == LerLinha \/ RetornarDocumentos

SpecSefaz == InitSefaz /\ [][NextSefaz]_vars

----------------------------------------------------------------------------
(* Status texts, as sequences of characters *)

Autorizada == <<"A", "u", "t", "o", "r", "i", "z", "a", "d", "a">>
AUTORIZADO == <<"A", "U", "T", "O", "R", "I", "Z", "A", "D", "O">>
Cancelada == <<"C", "a", "n", "c", "e", "l", "a", "d", "a">>

\* str.lower(), character by character
Minuscula(ch) ==
    CASE ch = "A" -> "a" [] ch = "U" -> "u" [] ch = "T" -> "t" [] ch = "O" -> "o"
      [] ch = "R" -> "r" [] ch = "I" -> "i" [] ch = "Z" -> "z" [] ch = "D" -> "d"
      [] ch = "C" -> "c" [] ch = "F" -> "f" [] ch = "N" -> "n" [] ch = "L" -> "l"
      [] ch = "S" -> "s" [] ch = "E" -> "e" [] OTHER -> ch

Lower(txt) == [i \in 1..Len(txt) |-> Minuscula(txt[i])]

\* sub in txt
Contem(sub, txt) ==
    \E i \in 1..(Len(txt) - Len(sub) + 1) : SubSeq(txt, i, i + Len(sub) - 1) = sub

Autoriza == <<"a", "u", "t", "o", "r", "i", "z", "a">>

EstaAutorizadoSemLower(status) == Contem(Autoriza, status)

\* 'autoriza' in status.lower()
EstaAutorizado(status) == Contem(Autoriza, Lower(status))

----------------------------------------------------------------------------
(* _ler_relatorio: the loop over the data rows *)

LinhaRelatorio(serie, doc, status) == [serie |-> serie, doc |-> doc, status |-> status]

\* relatorio[doc_limpo] = status_val
Gravar(rel, d, status) == [k \in (DOMAIN rel) \cup {d} |-> IF k = d THEN status ELSE rel[k]]

RECURSIVE LerRelatorio(_, _)
LerRelatorio(tab, alvo) ==
    IF tab = <<>> THEN [exc |-> None, rel |-> <<>>]
    ELSE LET antes == LerRelatorio(SubSeq(tab, 1, Len(tab) - 1), alvo)
             row == tab[Len(tab)]
             doc == IntFloat(row.doc)
         IN  IF antes.exc /= None THEN antes
             ELSE IF row.serie /= alvo \/ CelulaVazia(row.doc) THEN antes
             ELSE IF doc.exc = "ValueError" THEN antes
             ELSE IF doc.exc /= None THEN [exc |-> doc.exc, rel |-> <<>>]
             ELSE [exc |-> None, rel |-> Gravar(antes.rel, StrInt(doc.n), row.status)]

----------------------------------------------------------------------------
(* sorted(lista, key=lambda x: int(x)) on a list of documents *)

RECURSIVE InserirDoc(_, _)
InserirDoc(ordenada, d) ==
    IF ordenada = <<>> THEN <<d>>
    ELSE IF IntDe(ordenada[Len(ordenada)]) <= IntDe(d)
         THEN Append(ordenada, d)
         ELSE Append(InserirDoc(SubSeq(ordenada, 1, Len(ordenada) - 1), d),
                     ordenada[Len(ordenada)])

SemOrdenar(lista) == lista

RECURSIVE OrdenarPorInt(_)
OrdenarPorInt(lista) ==
    IF lista = <<>> THEN <<>>
    ELSE InserirDoc(OrdenarPorInt(SubSeq(lista, 1, Len(lista) - 1)), lista[Len(lista)])

----------------------------------------------------------------------------
(* executar_analise_discrepancia *)

TabelasSefaz ==
    {<<LinhaTabela("1", Num(8), Num(11))>>,
     <<LinhaTabela("1", Num(10), Texto(""))>>,
     <<LinhaTabela("1", Num(10), Num(11)), LinhaTabela("2", Num(8), Num(9))>>,
     <<LinhaTabela("1", Num(9), Texto("inf"))>>}

LinhasRelatorio ==
    {LinhaRelatorio(s, d, st) :
        s \in Series, d \in {Num(9), Dec(10, 0)}, st \in {Autorizada, AUTORIZADO, Cancelada}}

ResultadoErroDiscrepancia ==
    [tipo |-> "discrepancia", discrepancia_grave |-> <<>>, conciliado_ok |-> <<>>,
     nao_encontrado_no_relatorio |-> <<>>, count_sefaz |-> 0, count_relatorio |-> 0,
     erro |-> "erro"]

InitDiscrepancia ==
    /\ op = "discrepancia"
    /\ pc = "inicio"
    /\ tabela \in TabelasSefaz
    /\ tem_intervalos = TRUE
    /\ serie_alvo = "1"
    /\ tabela_relatorio \in SeqAte(LinhasRelatorio, MaxLinhasTabela)
    /\ linha_atual = 0 /\ documentos = {} /\ novos = {}
    /\ docs_sefaz = {} /\ relatorio_sistema = <<>> /\ pendentes = {} /\ listas = None
    /\ arquivo_a = None /\ arquivo_b = None
    /\ resultado = None
    /\ ChamadaParada
    /\ tipo = None /\ texto_bruto = <<>> /\ cupons_com_serie = <<>> /\ fila = <<>> /\ falhas = {} /\ consultas = <<>>
    /\ OutrosParados

\* lines 363-369: read both files; an exception of either ends the run with
\* the error result of lines 400-409
LerArquivos ==
    /\ op = "discrepancia"
    /\ pc = "inicio"
    /\ LET s == LerSefaz(tabela, serie_alvo, tem_intervalos)
           r == LerRelatorio(tabela_relatorio, serie_alvo)
       IN  IF s.exc = None /\ r.exc = None
           THEN /\ docs_sefaz' = s.docs
                /\ relatorio_sistema' = r.rel
                /\ pendentes' = s.docs
                /\ listas' = [discrepancia_grave |-> <<>>, conciliado_ok |-> <<>>,
                              nao_encontrado_no_relatorio |-> <<>>]
                /\ pc' = "loop"
                /\ resultado' = resultado
           ELSE /\ pc' = "retornou"
                /\ resultado' = ResultadoErroDiscrepancia
                /\ UNCHANGED <<docs_sefaz, relatorio_sistema, pendentes, listas>>
    /\ UNCHANGED <<op, varsChamada, varsRun, varsSefaz, tabela_relatorio, arquivo_a, arquivo_b>>
    /\ UNCHANGED varsOutros

DestinosSemElse(doc, rel) ==
    IF doc \in DOMAIN rel
    THEN IF EstaAutorizado(rel[doc])
         THEN {"discrepancia_grave", "conciliado_ok"}
         ELSE {"conciliado_ok"}
    ELSE {"nao_encontrado_no_relatorio"}

\* lines 373-385: the lists the document is appended to
Destinos(doc, rel) ==
    IF doc \in DOMAIN rel
    THEN IF EstaAutorizado(rel[doc]) THEN {"discrepancia_grave"} ELSE {"conciliado_ok"}
    ELSE {"nao_encontrado_no_relatorio"}

\* one iteration of `for doc in docs_sefaz`: a set is visited in any order
ClassificarDoc ==
    /\ op = "discrepancia"
    /\ pc = "loop"
    /\ \E doc \in pendentes :
          /\ listas' = [l \in DOMAIN listas |->
                           IF l \in Destinos(doc, relatorio_sistema)
                           THEN Append(listas[l], doc) ELSE listas[l]]
          /\ pendentes' = pendentes \ {doc}
    /\ UNCHANGED <<op, pc, resultado, varsChamada, varsRun, varsSefaz>>
    /\ UNCHANGED <<tabela_relatorio, docs_sefaz, relatorio_sistema, arquivo_a, arquivo_b>>
    /\ UNCHANGED varsOutros

\* lines 388-398
RetornarDiscrepancia ==
    /\ op = "discrepancia"
    /\ pc = "loop"
    /\ pendentes = {}
    /\ resultado' =
          [tipo |-> "discrepancia",
           discrepancia_grave |-> OrdenarPorInt(listas.discrepancia_grave),
           conciliado_ok |-> OrdenarPorInt(listas.conciliado_ok),
           nao_encontrado_no_relatorio |-> OrdenarPorInt(listas.nao_encontrado_no_relatorio),
           count_sefaz |-> Cardinality(docs_sefaz),
           count_relatorio |-> Cardinality(DOMAIN relatorio_sistema),
           erro |-> None]
    /\ pc' = "retornou"
    /\ UNCHANGED <<op, varsChamada, varsSefaz, varsArquivos>>
    /\ UNCHANGED <<tipo, texto_bruto, cupons_com_serie, fila, falhas, consultas>>
    /\ UNCHANGED varsOutros

NextDiscrepancia == LerArquivos \/ ClassificarDoc \/ RetornarDiscrepancia

SpecDiscrepancia == InitDiscrepancia /\ [][NextDiscrepancia]_vars

----------------------------------------------------------------------------
(* executar_comparacao_simples.  A file is what each reader finds in it:   *)
(* whether _encontrar_cabecalho finds the header it looks for, and the     *)
(* data rows under it                                                       *)

Arquivo(e_sefaz, sefaz, e_relatorio, relatorio) ==
    [e_sefaz |-> e_sefaz, sefaz |-> sefaz, e_relatorio |-> e_relatorio,
     relatorio |-> relatorio]

Arquivos ==
    {Arquivo(TRUE, <<LinhaTabela("1", Num(8), Num(11))>>, FALSE, <<>>),
     Arquivo(TRUE, <<LinhaTabela("1", Num(10), Texto(""))>>, FALSE, <<>>),
     Arquivo(FALSE, <<>>, TRUE, <<LinhaRelatorio("1", Num(9), Cancelada),
                                  LinhaRelatorio("1", Dec(10, 0), Autorizada)>>),
     Arquivo(FALSE, <<>>, TRUE, <<LinhaRelatorio("1", Num(11), Cancelada),
                                  LinhaRelatorio("1", Num(8), Cancelada)>>),
     Arquivo(TRUE, <<LinhaTabela("1", Num(9), Num(10))>>,
             TRUE, <<LinhaRelatorio("1", Num(11), Cancelada)>>),
     Arquivo(TRUE, <<LinhaTabela("1", Num(8), Num(9))>>,
             TRUE, <<LinhaRelatorio("1", Num(9), Autorizada),
                     LinhaRelatorio("1", Num(10), Cancelada)>>),
     Arquivo(TRUE, <<LinhaTabela("2", Num(9), Num(9)),
                     LinhaTabela("1", Num(11), Texto("x"))>>, FALSE, <<>>),
     Arquivo(FALSE, <<>>, FALSE, <<>>)}

\* _ler_sefaz(path, serie_alvo): every exception leaves as Exception (line 278)
LerComoSefaz(arq, alvo) ==
    IF ~arq.e_sefaz THEN [exc |-> "Exception", docs |-> {}]
    ELSE LerSefaz(arq.sefaz, alvo, TRUE)

\* set(_ler_relatorio(path, serie_alvo).keys())
LerComoRelatorio(arq, alvo) ==
    IF ~arq.e_relatorio THEN [exc |-> "Exception", docs |-> {}]
    ELSE LET r == LerRelatorio(arq.relatorio, alvo)
         IN  [exc |-> r.exc, docs |-> DOMAIN r.rel]

Par(a, b) == [ok |-> a.exc = None /\ b.exc = None, a |-> a.docs, b |-> b.docs]

\* lines 445-466: the four strategies, in order
LerOsDois(a, b, alvo) ==
    LET e1 == Par(LerComoSefaz(a, alvo), LerComoRelatorio(b, alvo))
        e2 == Par(LerComoRelatorio(a, alvo), LerComoSefaz(b, alvo))
        e3 == Par(LerComoSefaz(a, alvo), LerComoSefaz(b, alvo))
        e4 == Par(LerComoRelatorio(a, alvo), LerComoRelatorio(b, alvo))
    IN  IF e1.ok THEN e1 ELSE IF e2.ok THEN e2 ELSE IF e3.ok THEN e3 ELSE e4

\* list(conjunto): the elements of a set, in any order
EmQualquerOrdem(S) ==
    {l \in [1..Cardinality(S) -> S] : \A i, j \in 1..Cardinality(S) : i /= j => l[i] /= l[j]}

SoNoBTrocado(set_a, set_b) == set_a \ set_b

\* lines 469-471: the three set operations
EmAmbos(set_a, set_b) == set_a \cap set_b

SoNoA(set_a, set_b) == set_a \ set_b

SoNoB(set_a, set_b) == set_b \ set_a

\* lines 474-484: the result for two sets, whatever order list() gives
Comparar(set_a, set_b) ==
    {[tipo |-> "comparacao",
      em_ambos |-> OrdenarPorInt(ambos),
      so_no_arquivo_a |-> OrdenarPorInt(so_a),
      so_no_arquivo_b |-> OrdenarPorInt(so_b),
      count_a |-> Cardinality(set_a),
      count_b |-> Cardinality(set_b),
      erro |-> None] :
        ambos \in EmQualquerOrdem(EmAmbos(set_a, set_b)),
        so_a \in EmQualquerOrdem(SoNoA(set_a, set_b)),
        so_b \in EmQualquerOrdem(SoNoB(set_a, set_b))}

InitComparacao ==
    /\ op = "comparacao"
    /\ pc = "inicio"
    /\ arquivo_a \in Arquivos
    /\ arquivo_b \in Arquivos
    /\ serie_alvo = "1"
    /\ tabela = <<>> /\ tem_intervalos = FALSE
    /\ linha_atual = 0 /\ documentos = {} /\ novos = {}
    /\ tabela_relatorio = <<>>
    /\ docs_sefaz = {} /\ relatorio_sistema = <<>> /\ pendentes = {} /\ listas = None
    /\ resultado = None
    /\ ChamadaParada
    /\ tipo = None /\ texto_bruto = <<>> /\ cupons_com_serie = <<>> /\ fila = <<>> /\ falhas = {} /\ consultas = <<>>
    /\ OutrosParados

\* lines 434-500
CompararArquivos ==
    /\ op = "comparacao"
    /\ pc = "inicio"
    /\ LET lido == LerOsDois(arquivo_a, arquivo_b, serie_alvo)
       IN  IF lido.ok
           THEN resultado' \in Comparar(lido.a, lido.b)
           ELSE resultado' =
                   [tipo |-> "comparacao", em_ambos |-> <<>>, so_no_arquivo_a |-> <<>>,
                    so_no_arquivo_b |-> <<>>, count_a |-> 0, count_b |-> 0, erro |-> "erro"]
    /\ pc' = "retornou"
    /\ UNCHANGED <<op, varsChamada, varsRun, varsSefaz, varsArquivos>>
    /\ UNCHANGED varsOutros

NextComparacao == CompararArquivos

SpecComparacao == InitComparacao /\ [][NextComparacao]_vars

----------------------------------------------------------------------------
(* executar_analise_db *)

DigitosDaSerie(tag) == IF tag = "1" THEN <<1>> ELSE <<2>>

\* re.search(r'(\d+)\s*$', linha): the digits the line ends with; the line of
\* a tagged entry ends with the digits of "|SERIE_<n>"
DigitosFinais(linha) == IF linha.tag /= None THEN DigitosDaSerie(linha.tag) ELSE linha.num

\* _extrair_cupons_do_texto
ExtrairCuponsDoTexto(texto) ==
    {DigitosFinais(texto[i]) : i \in {j \in 1..Len(texto) : DigitosFinais(texto[j]) /= <<>>}}

\* rows (nfe_cod_resp, nfe_status, cancelada) of the query of line 857
LinhaDb(cod, status, cancelada) ==
    [nfe_cod_resp |-> cod, nfe_status |-> status, cancelada |-> cancelada]

\* None in a column of character sequences
Nulo == <<>>

LinhasDb ==
    {LinhaDb("E0001", Nulo, None), LinhaDb(None, Autorizada, None),
     LinhaDb(None, Nulo, "S"), LinhaDb(None, Nulo, None)}

\* lines 871-887: the bucket of a fetched row
Balde(row) ==
    IF row.nfe_cod_resp = "E0001" THEN "prontos_para_inutilizar"
    ELSE IF row.nfe_status /= Nulo /\ EstaAutorizado(row.nfe_status) THEN "autorizados"
    ELSE IF row.cancelada /= None /\ row.cancelada = "S" THEN "cancelados"
    ELSE "outros_erros"

RegistrarErroSoNoLog(ls, c) == ls

\* the except of the loop body: the coupon goes to outros_erros
RegistrarErro(ls, c) ==
    [ls EXCEPT !.outros_erros = Append(@, [cupom |-> c, texto |-> "Erro"])]

ResultadoErroDb ==
    [tipo |-> "analise_db", prontos_para_inutilizar |-> <<>>, autorizados |-> <<>>,
     cancelados |-> <<>>, nao_encontrados |-> <<>>, outros_erros |-> <<>>,
     total_processados |-> 0, erro |-> "erro"]

InitDb ==
    /\ op = "analise_db"
    /\ pc = "inicio"
    /\ tipo \in {"nuvem", "local"}
    /\ texto_bruto \in SeqAte(Linhas, MaxLinhas)
    /\ serie_alvo = "1"
    /\ cupons_com_serie = <<>> /\ fila = <<>> /\ falhas = {} /\ consultas = <<>>
    /\ tabela = <<>> /\ tem_intervalos = FALSE
    /\ linha_atual = 0 /\ documentos = {} /\ novos = {}
    /\ ArquivosParados
    /\ resultado = None
    /\ ChamadaParada
    /\ OutrosParados

\* lines 793-848: extract, connect, prepare the lists; no coupon or a
\* connection that raises ends the run with an error result
ConectarDb ==
    /\ op = "analise_db"
    /\ pc = "inicio"
    /\ \E conectou \in BOOLEAN :
          IF ExtrairCuponsDoTexto(texto_bruto) /= {} /\ conectou
          THEN /\ pendentes' = ExtrairCuponsDoTexto(texto_bruto)
               /\ listas' = [prontos_para_inutilizar |-> <<>>, autorizados |-> <<>>,
                             cancelados |-> <<>>, nao_encontrados |-> <<>>,
                             outros_erros |-> <<>>]
               /\ pc' = "loop"
               /\ resultado' = resultado
          ELSE /\ pc' = "retornou"
               /\ resultado' = ResultadoErroDb
               /\ UNCHANGED <<pendentes, listas>>
    /\ UNCHANGED <<op, varsChamada, varsRun, varsSefaz>>
    /\ UNCHANGED <<tabela_relatorio, docs_sefaz, relatorio_sistema, arquivo_a, arquivo_b>>
    /\ UNCHANGED varsOutros

\* lines 851-891: one iteration of `for cupom in cupons` (a set, visited in
\* any order); a query that raises is recorded in outros_erros
ConsultarDb ==
    /\ op = "analise_db"
    /\ pc = "loop"
    /\ \E c \in pendentes :
          /\ pendentes' = pendentes \ {c}
          /\ \/ listas' = [listas EXCEPT !.nao_encontrados = Append(@, c)]
             \/ \E row \in LinhasDb :
                   listas' =
                      [listas EXCEPT ![Balde(row)] =
                          Append(@, IF Balde(row) = "outros_erros"
                                    THEN [cupom |-> c, texto |-> "Status"]
                                    ELSE c)]
             \/ listas' = RegistrarErro(listas, c)
    /\ UNCHANGED <<op, pc, resultado, varsChamada, varsRun, varsSefaz>>
    /\ UNCHANGED <<tabela_relatorio, docs_sefaz, relatorio_sistema, arquivo_a, arquivo_b>>
    /\ UNCHANGED varsOutros

\* lines 894-913
RetornarDb ==
    /\ op = "analise_db"
    /\ pc = "loop"
    /\ pendentes = {}
    /\ resultado' =
          [tipo |-> "analise_db",
           prontos_para_inutilizar |-> OrdenarPorInt(listas.prontos_para_inutilizar),
           autorizados |-> OrdenarPorInt(listas.autorizados),
           cancelados |-> OrdenarPorInt(listas.cancelados),
           nao_encontrados |-> OrdenarPorInt(listas.nao_encontrados),
           outros_erros |-> listas.outros_erros,
           total_processados |-> Cardinality(ExtrairCuponsDoTexto(texto_bruto)),
           erro |-> None]
    /\ pc' = "retornou"
    /\ UNCHANGED <<op, varsChamada, varsRun, varsSefaz, varsArquivos>>
    /\ UNCHANGED varsOutros

NextDb == ConectarDb \/ ConsultarDb \/ RetornarDb

SpecDb == InitDb /\ [][NextDb]_vars

----------------------------------------------------------------------------
(* Every entry point that returns document lists *)

Init == InitAvancada \/ InitDiscrepancia \/ InitComparacao \/ InitDb

Next ==
    \/ Extrair \/ Conectar \/ ConsultarCupom \/ ConsultaFalha \/ Retornar
    \/ LerArquivos \/ ClassificarDoc \/ RetornarDiscrepancia
    \/ CompararArquivos
    \/ ConectarDb \/ ConsultarDb \/ RetornarDb

Spec == Init /\ [][Next]_vars

----------------------------------------------------------------------------
(* Reading the result *)

\* every place <<series, list, index>> where the document c is filed
Ocorrencias(rps, c) ==
    {o \in (DOMAIN rps) \X NomesListas \X (1..8) :
        /\ o[3] <= Len(rps[o[1]][o[2]])
        /\ rps[o[1]][o[2]][o[3]].cupom = c}

\* the lists <<series, list>> in which the document c is filed
ListasDe(rps, c) == {<<o[1], o[2]>> : o \in Ocorrencias(rps, c)}

ItensDe(rps, c) == {rps[o[1]][o[2]][o[3]] : o \in Ocorrencias(rps, c)}

\* the decision table of the specification, one line per disposition
TabelaAutorizada(st, cr) == st = "A" \/ cr = "100"
TabelaCancelada(st, cr) == ~TabelaAutorizada(st, cr) /\ st = "C"
TabelaJaInutilizada(st, cr) == ~TabelaAutorizada(st, cr) /\ st = "I"
TabelaDeveInutilizar(st, cr) == ~TabelaAutorizada(st, cr) /\ st \notin {"C", "I"}

UmaLinha == op = "processar" /\ pc = "retornou" /\ Len(resultados) = 1

\* C1: classification is total and follows the table in order: a call with at
\* least one row files the document in exactly one of the four lists of exactly
\* one series; a single row goes to the list the table names, and status "A"
\* with response code "E0001" is Authorized.
C1_ClassificacaoTotal ==
    (op = "processar" /\ pc = "retornou" /\ resultados /= <<>>) =>
        /\ Cardinality(Ocorrencias(resultados_por_serie, cupom)) = 1
        /\ Len(resultados) = 1 =>
             LET r == resultados[1]
                 st == r.nfe_status
                 cr == r.nfe_cod_resp
                 onde == ListasDe(resultados_por_serie, cupom)
             IN  /\ TabelaAutorizada(st, cr) => onde = {<<r.serie_nf, "autorizadas">>}
                 /\ TabelaCancelada(st, cr) => onde = {<<r.serie_nf, "canceladas">>}
                 /\ TabelaJaInutilizada(st, cr) => onde = {<<r.serie_nf, "ja_inutilizadas">>}
                 /\ TabelaDeveInutilizar(st, cr) => onde = {<<r.serie_nf, "para_inutilizar">>}
                 /\ (st = "A" /\ cr = "E0001") => onde = {<<r.serie_nf, "autorizadas">>}

C1_Witness ==
    /\ UmaLinha
    /\ resultados[1].nfe_status = "A"
    /\ resultados[1].nfe_cod_resp = "E0001"
    /\ ListasDe(resultados_por_serie, cupom) = {<<resultados[1].serie_nf, "autorizadas">>}

\* C2 as stated: a row of status "C" is Cancelled and a row of status "I" is
\* AlreadyVoided whatever its response code, "100" included.
C2_Original ==
    UmaLinha =>
        LET r == resultados[1]
            onde == ListasDe(resultados_por_serie, cupom)
        IN  /\ r.nfe_status = "C" => onde = {<<r.serie_nf, "canceladas">>}
            /\ r.nfe_status = "I" => onde = {<<r.serie_nf, "ja_inutilizadas">>}

\* C2 amended: the response code "100" is tested first, together with status
\* "A": a row of status "C" (resp. "I") is Cancelled (resp. AlreadyVoided) when
\* its response code is not "100", and Authorized when it is "100".
C2_CodigoCemPrimeiro ==
    UmaLinha =>
        LET r == resultados[1]
            onde == ListasDe(resultados_por_serie, cupom)
        IN  /\ (r.nfe_status = "C" /\ r.nfe_cod_resp /= "100")
                => onde = {<<r.serie_nf, "canceladas">>}
            /\ (r.nfe_status = "I" /\ r.nfe_cod_resp /= "100")
                => onde = {<<r.serie_nf, "ja_inutilizadas">>}
            /\ (r.nfe_status \in {"C", "I"} /\ r.nfe_cod_resp = "100")
                => onde = {<<r.serie_nf, "autorizadas">>}

C2_Witness ==
    /\ UmaLinha
    /\ resultados[1].nfe_status = "C"
    /\ resultados[1].nfe_cod_resp = "100"
    /\ ListasDe(resultados_por_serie, cupom) = {<<resultados[1].serie_nf, "autorizadas">>}

\* the rows whose NFe key is non-empty after trimming
TemChave(r) == r.nfe_chave \notin {None, "", " "}

Menor(S) == CHOOSE x \in S : \A y \in S : x <= y

\* the row the deduplication policy names
LinhaEsperada(rs) ==
    LET comChave == {i \in 1..Len(rs) : TemChave(rs[i])}
    IN  IF comChave = {} THEN rs[1] ELSE rs[Menor(comChave)]

\* C4: of the rows returned for a document, the row classified is the first
\* one whose NFe key is non-empty after trimming, else the first row; the
\* item filed is the item of that row alone.
C4_Deduplicacao ==
    (op = "processar" /\ pc = "retornou" /\ resultados /= <<>>) =>
        LET r == LinhaEsperada(resultados)
        IN  /\ ItensDe(resultados_por_serie, cupom)
                 = {ItemClassificado(r, cupom, serie_origem)}
            /\ ListasDe(resultados_por_serie, cupom) = {<<r.serie_nf, Disposicao(r)>>}

C4_Witness ==
    /\ op = "processar" /\ pc = "retornou" /\ Len(resultados) = 2
    /\ ~TemChave(resultados[1]) /\ resultados[1].nfe_chave = " "
    /\ TemChave(resultados[2])
    /\ resultados[1].nfe_status = "A" /\ resultados[2].nfe_status = "C"
    /\ resultados[2].nfe_cod_resp = None
    /\ ListasDe(resultados_por_serie, cupom) = {<<resultados[2].serie_nf, "canceladas">>}

\* the item was made from the row r
ItemDaLinha(item, r) ==
    /\ item.serie_bd = r.serie_nf
    /\ item.status_real = r.nfe_status
    /\ item.cod_resp = r.nfe_cod_resp
    /\ item.empresa = r.cod_empresa

Entradas(ls, s) == Cardinality({i \in 1..Len(ls) : ls[i] = s})

Terminou == op = "avancada" /\ pc = "retornou"

SemErroFatal == Terminou /\ resultado.erro = None

CuponsExtraidos == {cupons_com_serie[i].cupom : i \in 1..Len(cupons_com_serie)}

\* C3 as stated: when the run returns without a fatal error, every extracted
\* document is in the result, and in each series it is reported under it is in
\* exactly one of the four lists.
C3_Original ==
    SemErroFatal =>
        \A c \in CuponsExtraidos :
            /\ ListasDe(resultado.resultados_por_serie, c) /= {}
            /\ \A s \in DOMAIN resultado.resultados_por_serie :
                  Cardinality({l \in ListasDe(resultado.resultados_por_serie, c) : l[1] = s}) <= 1

\* how many queries were sent for the number n
ConsultasDe(n) == Cardinality({i \in 1..Len(consultas) : IntDe(consultas[i]) = n})

DocumentosDe(n) == Cardinality({d \in CuponsExtraidos : IntDe(d.num) = n})

\* every item of every list of the result
ItensDoResultado ==
    UNION {{resultado.resultados_por_serie[s][l][i] :
                i \in 1..Len(resultado.resultados_por_serie[s][l])} :
           s \in DOMAIN resultado.resultados_por_serie, l \in NomesListas}

\* C25: each extracted document causes exactly one ledger query, the queries
\* are issued one at a time in ascending numeric order, the number sent is the
\* document left-padded with zeros to 9 digits, and the items of the result
\* carry the unpadded number.  While the run goes on the queries sent are
\* ascending, padded, and never more than one per document; when it returns
\* its result every document has had its query.
C25_UmaConsultaPorDocumento ==
    (op = "avancada") =>
        /\ \A i, j \in 1..Len(consultas) :
              i < j => IntDe(consultas[i]) <= IntDe(consultas[j])
        /\ \A i \in 1..Len(consultas) :
              /\ Len(consultas[i]) = 9
              /\ ConsultasDe(IntDe(consultas[i])) <= DocumentosDe(IntDe(consultas[i]))
        /\ SemErroFatal =>
              /\ Len(consultas) = Cardinality(CuponsExtraidos)
              /\ \A c \in CuponsExtraidos :
                    ConsultasDe(IntDe(c.num)) = DocumentosDe(IntDe(c.num))
              /\ \A item \in ItensDoResultado : item.cupom \in CuponsExtraidos

\* the text has 10 before 9: two queries, 000000009 then 000000010, and the
\* result has items for 9 and for 10
C25_Witness ==
    /\ SemErroFatal
    /\ Len(texto_bruto) = 2
    /\ IntDe(texto_bruto[1].num) = 10 /\ IntDe(texto_bruto[2].num) = 9
    /\ consultas = <<<<0, 0, 0, 0, 0, 0, 0, 0, 9>>, <<0, 0, 0, 0, 0, 0, 0, 1, 0>>>>
    /\ {item.cupom : item \in ItensDoResultado} = {Doc("", <<9>>), Doc("", <<1, 0>>)}

\* the key a line of the pasted text is recorded under: the text left of the
\* tag, or the trailing digits of an untagged line
ChaveDaLinha(linha) ==
    IF linha.tag /= None THEN Doc(linha.pre, linha.num) ELSE Doc("", linha.num)

TemChaveDeDocumento(linha) == linha.tag /= None \/ linha.num /= <<>>

LinhasDoDocumento(c) ==
    {i \in 1..Len(texto_bruto) :
        TemChaveDeDocumento(texto_bruto[i]) /\ ChaveDaLinha(texto_bruto[i]) = c}

\* the tag of the last line of the document c
UltimaSerie(c) ==
    texto_bruto[CHOOSE i \in LinhasDoDocumento(c) : \A j \in LinhasDoDocumento(c) : j <= i].tag

C10_Original ==
    (Terminou /\ \E f \in falhas : f.causa = "consulta") =>
        /\ resultado.erro = None
        /\ \A f \in falhas : ListasDe(resultado.resultados_por_serie, f.cupom) /= {}

\* the row _ler_sefaz visited last is an interval row (lo, hi) of the target
\* series, lo <= hi
LinhaDeIntervalo ==
    /\ op = "ler_sefaz" /\ pc = "lendo" /\ linha_atual >= 1
    /\ tem_intervalos
    /\ tabela[linha_atual].serie = serie_alvo
    /\ tabela[linha_atual].inicial.k \in {"int", "dec"}
    /\ tabela[linha_atual].final.k \in {"int", "dec"}
    /\ tabela[linha_atual].inicial.n <= tabela[linha_atual].final.n

\* C8: an interval row (lo, hi) of the target series with lo <= hi yields
\* exactly hi - lo + 1 distinct document numbers, each of them in [lo, hi].
C8_IntervaloCompleto ==
    LinhaDeIntervalo =>
        LET lo == tabela[linha_atual].inicial.n
            hi == tabela[linha_atual].final.n
        IN  /\ Cardinality(novos) = hi - lo + 1
            /\ \A d \in novos : IntDe(d) >= lo /\ IntDe(d) <= hi
            /\ Cardinality({IntDe(d) : d \in novos}) = hi - lo + 1
            /\ novos \subseteq documentos

C8_Witness ==
    /\ LinhaDeIntervalo
    /\ tabela[linha_atual].inicial = Num(8)
    /\ tabela[linha_atual].final = Num(11)
    /\ novos = {<<8>>, <<9>>, <<1, 0>>, <<1, 1>>}

\* the cell reads as an integer
CelulaInteira(cel) == cel.k \in {"int", "dec"}

\* what the row rule gives for one row in interval mode
ContribuicaoDaRegra(row, alvo) ==
    IF row.serie /= alvo \/ ~CelulaInteira(row.inicial) THEN {}
    ELSE IF CelulaInteira(row.final)
         THEN {StrInt(n) : n \in row.inicial.n .. row.final.n}
         ELSE {StrInt(row.inicial.n)}

\* _ler_sefaz in interval mode has just gone through a row
LinhaVisitada ==
    /\ op = "ler_sefaz" /\ pc \in {"lendo", "levantou"} /\ linha_atual >= 1
    /\ tem_intervalos

\* C23 as stated: in interval mode a row of the target series whose Inicial
\* parses contributes exactly the integers of [Inicial, Final] when Final is
\* present and parses (none when Final < Inicial) and exactly Inicial when
\* Final is absent or unparseable; a row of another series or with an
\* unparseable Inicial contributes nothing.
C23_Original ==
    LinhaVisitada =>
        /\ pc = "lendo"
        /\ novos = ContribuicaoDaRegra(tabela[linha_atual], serie_alvo)

\* int(float(...)) of a cell the row rule reads raises, whatever the kind
LinhaQueLevanta(row, alvo, tem) ==
    /\ row.serie = alvo
    /\ ~CelulaVazia(row.inicial)
    /\ \/ ~CelulaInteira(row.inicial)
       \/ tem /\ ~CelulaVazia(row.final) /\ row.final = Texto("inf")

SemLinhasQueLevantam(tab, alvo, tem) ==
    LET boa(row) == ~LinhaQueLevanta(row, alvo, tem) IN SelectSeq(tab, boa)

\* C24 as stated: extraction is never aborted by one bad unit; a data row whose
\* parsing raises, whatever the kind of failure, is skipped alone, and the
\* result is the result for the same table with the offending rows removed.
C24_Original ==
    (op = "ler_sefaz" /\ pc \in {"retornou", "levantou"}) =>
        /\ pc = "retornou"
        /\ resultado = LerSefaz(SemLinhasQueLevantam(tabela, serie_alvo, tem_intervalos),
                                serie_alvo, tem_intervalos).docs

DiscrepanciaRetornou == op = "discrepancia" /\ pc = "retornou" /\ resultado.erro = None

ElementosDaLista(lista) == {lista[i] : i \in 1..Len(lista)}

\* the statuses of the model that contain the marker, whatever the case
StatusComMarcador == {Autorizada, AUTORIZADO}

\* C6: a document of the authority set goes to graveMismatch if it is in the
\* ledger status map with a status that contains the authorized marker
\* case-insensitively, to reconciledOk if it is there with another status,
\* and to missingFromLedger if it is not in the map.
C6_RegraDiscrepancia ==
    DiscrepanciaRetornou =>
        \A doc \in docs_sefaz :
            IF doc \in DOMAIN relatorio_sistema
            THEN IF relatorio_sistema[doc] \in StatusComMarcador
                 THEN doc \in ElementosDaLista(resultado.discrepancia_grave)
                 ELSE doc \in ElementosDaLista(resultado.conciliado_ok)
            ELSE doc \in ElementosDaLista(resultado.nao_encontrado_no_relatorio)

C6_Witness ==
    /\ DiscrepanciaRetornou
    /\ docs_sefaz = {<<8>>, <<9>>, <<1, 0>>, <<1, 1>>}
    /\ relatorio_sistema = (<<9>> :> Cancelada) @@ (<<1, 0>> :> AUTORIZADO)
    /\ resultado.discrepancia_grave = <<<<1, 0>>>>
    /\ resultado.conciliado_ok = <<<<9>>>>
    /\ resultado.nao_encontrado_no_relatorio = << <<8>>, <<1, 1>> >>

\* C7: the three output lists are pairwise disjoint, their union is the
\* authority set, and their lengths sum to count_sefaz, the number of distinct
\* authority documents.
C7_Particao ==
    DiscrepanciaRetornou =>
        LET g == resultado.discrepancia_grave
            k == resultado.conciliado_ok
            n == resultado.nao_encontrado_no_relatorio
        IN  /\ ElementosDaLista(g) \cap ElementosDaLista(k) = {}
            /\ ElementosDaLista(g) \cap ElementosDaLista(n) = {}
            /\ ElementosDaLista(k) \cap ElementosDaLista(n) = {}
            /\ ElementosDaLista(g) \cup ElementosDaLista(k) \cup ElementosDaLista(n) = docs_sefaz
            /\ Len(g) + Len(k) + Len(n) = resultado.count_sefaz
            /\ resultado.count_sefaz = Cardinality(docs_sefaz)

C7_Witness ==
    /\ DiscrepanciaRetornou
    /\ resultado.count_sefaz = 4
    /\ Len(resultado.discrepancia_grave) = 1
    /\ Len(resultado.conciliado_ok) = 1
    /\ Len(resultado.nao_encontrado_no_relatorio) = 2
    /\ relatorio_sistema = (<<9>> :> Cancelada) @@ (<<1, 0>> :> Autorizada)

\* the documents of a list are in ascending numeric order
Ascendente(lista) == \A i, j \in 1..Len(lista) : i < j => IntDe(lista[i]) <= IntDe(lista[j])

\* the items of a list are in ascending numeric order of their document
ItensAscendentes(lista) ==
    \A i, j \in 1..Len(lista) : i < j => IntDe(lista[i].cupom.num) <= IntDe(lista[j].cupom.num)

ListasDeDocumentosOrdenadas ==
    /\ (op = "discrepancia" /\ pc = "retornou") =>
          /\ Ascendente(resultado.discrepancia_grave)
          /\ Ascendente(resultado.conciliado_ok)
          /\ Ascendente(resultado.nao_encontrado_no_relatorio)
    /\ (op = "comparacao" /\ pc = "retornou") =>
          /\ Ascendente(resultado.em_ambos)
          /\ Ascendente(resultado.so_no_arquivo_a)
          /\ Ascendente(resultado.so_no_arquivo_b)
    /\ (op = "avancada" /\ pc = "retornou" /\ resultado.erro = None) =>
          \A s \in DOMAIN resultado.resultados_por_serie : \A l \in NomesListas :
              ItensAscendentes(resultado.resultados_por_serie[s][l])
    /\ (op = "analise_db" /\ pc = "retornou") =>
          /\ Ascendente(resultado.prontos_para_inutilizar)
          /\ Ascendente(resultado.autorizados)
          /\ Ascendente(resultado.cancelados)
          /\ Ascendente(resultado.nao_encontrados)

OutrosErrosOrdenados ==
    (op = "analise_db" /\ pc = "retornou") =>
        \A i, j \in 1..Len(resultado.outros_erros) :
            i < j => IntDe(resultado.outros_erros[i].cupom) <= IntDe(resultado.outros_erros[j].cupom)

\* C9 as stated: every document sequence of every result is in ascending
\* numeric order, the five bucket lists of the single-series ledger analysis
\* included.
C9_Original == ListasDeDocumentosOrdenadas /\ OutrosErrosOrdenados

\* C9 amended: the lists of the discrepancy check, of the set comparison, of
\* every series of the ledger-driven classification, and the four document
\* buckets of the single-series analysis are in ascending numeric order (the
\* fifth bucket, outros_erros, keeps the order in which the set was visited).
C9_ListasOrdenadas == ListasDeDocumentosOrdenadas

C9_Witness ==
    /\ op = "analise_db" /\ pc = "retornou" /\ resultado.erro = None
    /\ resultado.nao_encontrados = << <<9>>, <<1, 0>> >>
    /\ listas.nao_encontrados = << <<1, 0>>, <<9>> >>

----------------------------------------------------------------------------
(* Failures of the connection *)

FalhouAConexao == \E f \in falhas : f.causa = "conexao"

\* C11 as stated: a connection-level failure during the classification
\* (ledger unreachable, bad credentials, isql exiting with a non-zero status)
\* aborts the run: it ends with the fatal error and never returns a
\* classification result whose error is null.
C11_Original ==
    (Terminou /\ FalhouAConexao) => resultado = ErroFatal

----------------------------------------------------------------------------
(* The window (src/app.py): the runs started by the button of the ledger   *)
(* analysis.  A run is the chain iniciar_analise_db ->                     *)
(* _executar_analise_thread (worker thread) -> _decidir_empresas (event    *)
(* loop) -> [_mostrar_selecao_empresas, _confirmar] ->                     *)
(* _lancar_analise_final -> _run_analise_final (worker thread) ->          *)
(* _exibir_resultados_db (event loop).  Each step below is one stretch of  *)
(* code between two points where another thread or callback may run.      *)

MaxExecucoes == 2

\* the PDFs the operator may have selected ("": none, the pasted text is used)
PDFs == {"a.pdf", "b.pdf"}

\* the ledgers the connection fields may name, and the companies of each
Configs == {"db1", "db2"}

EmpresasDe(config) == IF config = "db1" THEN <<"E1">> ELSE <<"E1", "E2">>

\* [eid for eid, v in vars_emp.items() if v.get()]: the boxes left checked
RECURSIVE Marcadas(_, _)
Marcadas(opcoes, S) ==
    IF opcoes = <<>> THEN <<>>
    ELSE LET resto == Marcadas(Tail(opcoes), S)
         IN  IF Head(opcoes) \in S THEN <<Head(opcoes)>> \o resto ELSE resto

Selecoes(opcoes) ==
    {Marcadas(opcoes, S) : S \in (SUBSET ElementosDe(opcoes)) \ {{}}}

\* the arguments and locals of one run
Execucao(path_pdf, config) ==
    [pc |-> IF path_pdf /= "" THEN "converter" ELSE "empresas",
     path_pdf |-> path_pdf,
     config |-> config,
     texto_cupons |-> "colado",
     opcoes |-> <<>>,
     escolha |-> <<>>,
     lista_empresas |-> <<>>,
     erro |-> ""]

Passo(r, posicao) == r \in 1..Len(execucoes) /\ execucoes[r].pc = posicao

\* top.grab_set(): while a selection window is open the main window gets no click
ModalAberto == \E r \in 1..Len(execucoes) : execucoes[r].pc = "modal"

InitGui ==
    /\ op = "gui"
    /\ pc = "janela"
    /\ RunParado
    /\ ChamadaParada
    /\ SefazParado
    /\ ArquivosParados
    /\ OutrosParados

\* lines 340-379: the button; validates the fields and starts the worker thread
IniciarAnaliseDb ==
    /\ op = "gui"
    /\ Len(execucoes) < MaxExecucoes
    /\ ~ModalAberto
    /\ \E path_pdf \in PDFs \cup {""}, config \in Configs :
          execucoes' = Append(execucoes, Execucao(path_pdf, config))
    /\ UNCHANGED <<empresas_disponiveis, empresas_selecionadas, temp_excel>>
    /\ UNCHANGED <<op, pc, resultado, varsChamada, varsRun, varsSefaz, varsArquivos>>
    /\ UNCHANGED varsIsql
    /\ UNCHANGED varsTabela

\* lines 386-394: converter_pdf_para_excel(path_pdf, temp_excel)
ConverterPdf(r) ==
    /\ op = "gui"
    /\ Passo(r, "converter")
    /\ \E sucesso \in BOOLEAN :
          IF sucesso
          THEN /\ temp_excel' = execucoes[r].path_pdf
               /\ execucoes' = [execucoes EXCEPT ![r].pc = "ler"]
          ELSE /\ temp_excel' = temp_excel
               /\ execucoes' = [execucoes EXCEPT ![r].pc = "fim", ![r].erro = "Erro PDF"]
    /\ UNCHANGED <<empresas_disponiveis, empresas_selecionadas>>
    /\ UNCHANGED <<op, pc, resultado, varsChamada, varsRun, varsSefaz, varsArquivos>>
    /\ UNCHANGED varsIsql
    /\ UNCHANGED varsTabela

\* lines 397-409: _ler_sefaz(temp_excel, serie) for each series; a missing
\* file or a table without header raises, line 427 shows it
LerExcel(r) ==
    /\ op = "gui"
    /\ Passo(r, "ler")
    /\ \E legivel \in BOOLEAN :
          IF legivel /\ temp_excel /= None
          THEN execucoes' = [execucoes EXCEPT ![r].pc = "remover",
                                              ![r].texto_cupons = temp_excel]
          ELSE execucoes' = [execucoes EXCEPT ![r].pc = "fim", ![r].erro = "Erro Fatal"]
    /\ UNCHANGED <<empresas_disponiveis, empresas_selecionadas, temp_excel>>
    /\ UNCHANGED <<op, pc, resultado, varsChamada, varsRun, varsSefaz, varsArquivos>>
    /\ UNCHANGED varsIsql
    /\ UNCHANGED varsTabela

\* lines 411-412: os.remove(temp_excel), errors ignored
RemoverExcel(r) ==
    /\ op = "gui"
    /\ Passo(r, "remover")
    /\ temp_excel' = None
    /\ execucoes' = [execucoes EXCEPT ![r].pc = "empresas"]
    /\ UNCHANGED <<empresas_disponiveis, empresas_selecionadas>>
    /\ UNCHANGED <<op, pc, resultado, varsChamada, varsRun, varsSefaz, varsArquivos>>
    /\ UNCHANGED varsIsql
    /\ UNCHANGED varsTabela

\* lines 415-425: obter_empresas_disponiveis(config), stored on the window
ObterEmpresas(r) ==
    /\ op = "gui"
    /\ Passo(r, "empresas")
    /\ \E sucesso \in BOOLEAN :
          IF sucesso
          THEN /\ empresas_disponiveis' = EmpresasDe(execucoes[r].config)
               /\ execucoes' = [execucoes EXCEPT ![r].pc = "decidir"]
          ELSE /\ empresas_disponiveis' = empresas_disponiveis
               /\ execucoes' = [execucoes EXCEPT ![r].pc = "fim", ![r].erro = "Erro Banco"]
    /\ UNCHANGED <<empresas_selecionadas, temp_excel>>
    /\ UNCHANGED <<op, pc, resultado, varsChamada, varsRun, varsSefaz, varsArquivos>>
    /\ UNCHANGED varsIsql
    /\ UNCHANGED varsTabela

\* lines 430-445 and 462-480: the callback of the event loop
DecidirEmpresas(r) ==
    /\ op = "gui"
    /\ Passo(r, "decidir")
    /\ IF Len(empresas_disponiveis) > 1
       THEN /\ execucoes' = [execucoes EXCEPT ![r].pc = "modal",
                                               ![r].opcoes = empresas_disponiveis]
            /\ empresas_selecionadas' = empresas_selecionadas
       ELSE LET unica == IF empresas_disponiveis /= <<>>
                         THEN <<empresas_disponiveis[1]>> ELSE <<>>
            IN  /\ empresas_selecionadas' = unica
                /\ execucoes' = [execucoes EXCEPT ![r].pc = "lancada",
                                                   ![r].opcoes = empresas_disponiveis,
                                                   ![r].escolha = unica]
    /\ UNCHANGED <<empresas_disponiveis, temp_excel>>
    /\ UNCHANGED <<op, pc, resultado, varsChamada, varsRun, varsSefaz, varsArquivos>>
    /\ UNCHANGED varsIsql
    /\ UNCHANGED varsTabela

\* lines 482-489: the button of the selection window, with a box checked
Confirmar(r) ==
    /\ op = "gui"
    /\ Passo(r, "modal")
    /\ \E sel \in Selecoes(execucoes[r].opcoes) :
          /\ empresas_selecionadas' = sel
          /\ execucoes' = [execucoes EXCEPT ![r].pc = "lancada", ![r].escolha = sel]
    /\ UNCHANGED <<empresas_disponiveis, temp_excel>>
    /\ UNCHANGED <<op, pc, resultado, varsChamada, varsRun, varsSefaz, varsArquivos>>
    /\ UNCHANGED varsIsql
    /\ UNCHANGED varsTabela

\* lines 499-507: the second worker thread reads the selection off the window
RunAnaliseFinal(r) ==
    /\ op = "gui"
    /\ Passo(r, "lancada")
    /\ execucoes' = [execucoes EXCEPT ![r].pc = "exibir",
                                      ![r].lista_empresas = empresas_selecionadas]
    /\ UNCHANGED <<empresas_disponiveis, empresas_selecionadas, temp_excel>>
    /\ UNCHANGED <<op, pc, resultado, varsChamada, varsRun, varsSefaz, varsArquivos>>
    /\ UNCHANGED varsIsql
    /\ UNCHANGED varsTabela

\* lines 509-565
ExibirResultadosDb(r) ==
    /\ op = "gui"
    /\ Passo(r, "exibir")
    /\ execucoes' = [execucoes EXCEPT ![r].pc = "fim"]
    /\ UNCHANGED <<empresas_disponiveis, empresas_selecionadas, temp_excel>>
    /\ UNCHANGED <<op, pc, resultado, varsChamada, varsRun, varsSefaz, varsArquivos>>
    /\ UNCHANGED varsIsql
    /\ UNCHANGED varsTabela

NextGui ==
    \/ IniciarAnaliseDb
    \/ \E r \in 1..MaxExecucoes :
          \/ ConverterPdf(r)
          \/ LerExcel(r)
          \/ RemoverExcel(r)
          \/ ObterEmpresas(r)
          \/ DecidirEmpresas(r)
          \/ Confirmar(r)
          \/ RunAnaliseFinal(r)
          \/ ExibirResultadosDb(r)

SpecGui == InitGui /\ [][NextGui]_vars

----------------------------------------------------------------------------
(* Runs in flight *)

EmVoo(r) == r \in 1..Len(execucoes) /\ execucoes[r].pc /= "fim"

Classificou(r) ==
    /\ r \in 1..Len(execucoes)
    /\ execucoes[r].pc \in {"exibir", "fim"}
    /\ execucoes[r].erro = ""

\* C12 as stated: at most one run is in flight at any time; while a run
\* started from the window has not finished, no second run is started against
\* the same configuration.
C12_Original ==
    \A r1, r2 \in 1..Len(execucoes) :
        (r1 /= r2 /\ EmVoo(r1) /\ EmVoo(r2)) =>
            execucoes[r1].config /= execucoes[r2].config

\* C13 as stated: no value written by one run is read by another, so the
\* classification of a run uses the company filter chosen for that run, the
\* companies offered to the operator are those of the run's ledger, and the
\* documents it read are those of the PDF selected for that run.
C13_Original ==
    \A r \in 1..Len(execucoes) :
        /\ Classificou(r) =>
              /\ execucoes[r].lista_empresas = execucoes[r].escolha
              /\ execucoes[r].opcoes = EmpresasDe(execucoes[r].config)
        /\ execucoes[r].texto_cupons /= "colado" =>
              execucoes[r].texto_cupons = execucoes[r].path_pdf

\* C22 as stated: every temporary file created during a run is deleted when
\* the run ends, on every outcome; once no run is in flight the temporary
\* spreadsheet converted from the PDF is gone, also when reading it failed.
C22_Original ==
    (\A r \in 1..Len(execucoes) : ~EmVoo(r)) => temp_excel = None

----------------------------------------------------------------------------
(* firebird_isql._parse_list_output: the output of isql under SET LIST ON. *)
(* A line is the sequence of its characters.                               *)

EhBranco(ch) == ch \in {" ", "\t"}

\* line.strip()
RECURSIVE StripLinha(_)
StripLinha(line) ==
    IF line = <<>> THEN <<>>
    ELSE IF EhBranco(Head(line)) THEN StripLinha(Tail(line))
    ELSE IF EhBranco(line[Len(line)]) THEN StripLinha(SubSeq(line, 1, Len(line) - 1))
    ELSE line

SQLPrompt == <<"S", "Q", "L", ">">>

EhBannerNunca(line) == FALSE

\* line.startswith('SQL>')
EhBanner(line) ==
    /\ Len(line) >= Len(SQLPrompt)
    /\ SubSeq(line, 1, Len(SQLPrompt)) = SQLPrompt

\* where the first group of ^(\S+)\s+(.*)$ ends: 0 when the line does not match
FimDaColuna(line) ==
    IF line = <<>> \/ EhBranco(line[1]) \/ \A i \in 1..Len(line) : ~EhBranco(line[i])
    THEN 0
    ELSE (CHOOSE i \in 1..Len(line) :
              /\ EhBranco(line[i])
              /\ \A j \in 1..(i - 1) : ~EhBranco(line[j])) - 1

\* match.group(1), and match.group(2).strip()
Coluna(line) == SubSeq(line, 1, FimDaColuna(line))

Valor(line) == StripLinha(SubSeq(line, FimDaColuna(line) + 1, Len(line)))

\* current_row[col] = val
Guardar(row, col, val) ==
    [k \in DOMAIN row \cup {col} |-> IF k = col THEN val ELSE row[k]]

\* one iteration of the loop, lines 176-196
Consumir(rs, row, linha_bruta) ==
    LET line == StripLinha(linha_bruta)
    IN  IF line = <<>>
        THEN IF DOMAIN row /= {}
             THEN [rows |-> Append(rs, row), current_row |-> DictVazio]
             ELSE [rows |-> rs, current_row |-> row]
        ELSE IF EhBanner(line)
        THEN [rows |-> rs, current_row |-> row]
        ELSE IF FimDaColuna(line) > 0
        THEN [rows |-> rs, current_row |-> Guardar(row, Coluna(line), Valor(line))]
        ELSE [rows |-> rs, current_row |-> row]

\* lines 198-202
Finalizar(rs, row) == IF DOMAIN row /= {} THEN Append(rs, row) ELSE rs

RECURSIVE ConsumirTodas(_)
ConsumirTodas(ls) ==
    IF ls = <<>> THEN [rows |-> <<>>, current_row |-> DictVazio]
    ELSE LET antes == ConsumirTodas(SubSeq(ls, 1, Len(ls) - 1))
         IN  Consumir(antes.rows, antes.current_row, ls[Len(ls)])

ParseListOutput(ls) ==
    LET fim == ConsumirTodas(ls) IN Finalizar(fim.rows, fim.current_row)

\* the lines isql may print: blank, banner, COLUMN VALUE with one or several
\* blanks and words, a bare word, a column padded with blanks whose value is
\* the empty string
LinhasDeSaida ==
    {<<>>,
     <<" ", "\t">>,
     <<"S", "Q", "L", ">", " ">>,
     <<"S", "Q", "L", ">", " ", "A", " ", "1">>,
     <<"A", " ", "1">>,
     <<" ", "A", " ", " ", "2", "\t">>,
     <<"B", "\t", " ", "x", " ", " ", "y">>,
     <<"A">>,
     <<"B", " ", " ">>,
     <<"B", " ", ">">>}

MaxLinhasSaida == 3

\* the example: CODIGO 10, RAZAO_SOCIAL ACME, blank, CODIGO 20, RAZAO_SOCIAL
\* BETA, and the empty line after the last newline
CODIGO == <<"C", "O", "D", "I", "G", "O">>

RAZAO_SOCIAL == <<"R", "A", "Z", "A", "O", "_", "S", "O", "C", "I", "A", "L">>

Colunas == <<" ", " ", " ", " ", " ", " ">>

SaidaDeExemplo ==
    <<CODIGO \o Colunas \o <<"1", "0">>,
      RAZAO_SOCIAL \o Colunas \o <<"A", "C", "M", "E">>,
      <<>>,
      CODIGO \o Colunas \o <<"2", "0">>,
      RAZAO_SOCIAL \o Colunas \o <<"B", "E", "T", "A">>,
      <<>>>>

\* output.split('\n') has at least one line
Saidas ==
    (SeqAte(LinhasDeSaida, MaxLinhasSaida) \ {<<>>}) \cup {SaidaDeExemplo}

InitIsql ==
    /\ op = "isql"
    /\ pc = "parse"
    /\ output \in Saidas
    /\ lines = output
    /\ rows = <<>>
    /\ current_row = DictVazio
    /\ RunParado
    /\ ChamadaParada
    /\ SefazParado
    /\ ArquivosParados
    /\ GuiParada
    /\ TabelaParada

\* one iteration of the for loop
ParseLine ==
    /\ op = "isql"
    /\ pc = "parse"
    /\ lines /= <<>>
    /\ LET depois == Consumir(rows, current_row, Head(lines))
       IN  /\ rows' = depois.rows
           /\ current_row' = depois.current_row
    /\ lines' = Tail(lines)
    /\ UNCHANGED <<op, pc, output, resultado>>
    /\ UNCHANGED <<varsChamada, varsRun, varsSefaz, varsArquivos, varsGui>>
    /\ UNCHANGED varsTabela

\* after the loop
ReturnRows ==
    /\ op = "isql"
    /\ pc = "parse"
    /\ lines = <<>>
    /\ rows' = Finalizar(rows, current_row)
    /\ pc' = "retornou"
    /\ UNCHANGED <<op, output, lines, current_row, resultado>>
    /\ UNCHANGED <<varsChamada, varsRun, varsSefaz, varsArquivos, varsGui>>
    /\ UNCHANGED varsTabela

NextIsql == ParseLine \/ ReturnRows

SpecIsql == InitIsql /\ [][NextIsql]_vars

----------------------------------------------------------------------------
(* Reading the records parsed *)

IsqlRetornou == op = "isql" /\ pc = "retornou"

LinhaEmBranco(line) == \A i \in 1..Len(line) : EhBranco(line[i])

\* the line starts with the prompt of isql
TemSentinela(line) ==
    Len(line) >= 4 /\ line[1] = "S" /\ line[2] = "Q" /\ line[3] = "L" /\ line[4] = ">"

\* line.lstrip()
RECURSIVE SemBrancosAEsquerda(_)
SemBrancosAEsquerda(line) ==
    IF line /= <<>> /\ EhBranco(Head(line)) THEN SemBrancosAEsquerda(Tail(line)) ELSE line

\* a key/value line: not blank, not a banner, a token, blanks and a rest
\* (an empty rest when the value of the column is the empty string)
LinhaChaveValor(line) ==
    LET l == SemBrancosAEsquerda(line)
    IN  /\ l /= <<>>
        /\ ~TemSentinela(l)
        /\ \E i \in 1..Len(l) : EhBranco(l[i])

ChaveDe(line) ==
    LET l == SemBrancosAEsquerda(line)
        i == CHOOSE i \in 1..Len(l) : EhBranco(l[i]) /\ \A j \in 1..(i - 1) : ~EhBranco(l[j])
    IN  SubSeq(l, 1, i - 1)

RestoDe(line) ==
    LET l == SemBrancosAEsquerda(line)
    IN  StripLinha(SubSeq(l, Len(ChaveDe(line)) + 1, Len(l)))

\* the input records: the maximal runs a..b of lines that are not blank
Blocos(o) ==
    {<<a, b>> \in (1..Len(o)) \X (1..Len(o)) :
        /\ a <= b
        /\ \A i \in a..b : ~LinhaEmBranco(o[i])
        /\ (a = 1 \/ LinhaEmBranco(o[a - 1]))
        /\ (b = Len(o) \/ LinhaEmBranco(o[b + 1]))}

LinhasDoBloco(o, bl) == {i \in bl[1]..bl[2] : LinhaChaveValor(o[i])}

ChavesDoBloco(o, bl) == {ChaveDe(o[i]) : i \in LinhasDoBloco(o, bl)}

\* every key of the lines of the block, mapped to the rest of its line
\* trimmed (of its last line, when several lines carry the key)
RegistroDoBloco(o, bl) ==
    [k \in ChavesDoBloco(o, bl) |->
        LET ultima == CHOOSE i \in LinhasDoBloco(o, bl) :
                          /\ ChaveDe(o[i]) = k
                          /\ \A j \in LinhasDoBloco(o, bl) : j > i => ChaveDe(o[j]) /= k
        IN  RestoDe(o[ultima])]

BlocosComRegistro(o) == {bl \in Blocos(o) : ChavesDoBloco(o, bl) /= {}}

\* the records expected, in input order
RegistrosEsperados(o) ==
    LET B == BlocosComRegistro(o)
        ordem == CHOOSE f \in [1..Cardinality(B) -> B] :
                     \A i, j \in 1..Cardinality(B) : i < j => f[i][1] < f[j][1]
    IN  [i \in 1..Cardinality(B) |-> RegistroDoBloco(o, ordem[i])]

RegistrosDoExemplo ==
    << [k \in {CODIGO, RAZAO_SOCIAL} |->
           IF k = CODIGO THEN <<"1", "0">> ELSE <<"A", "C", "M", "E">>],
       [k \in {CODIGO, RAZAO_SOCIAL} |->
           IF k = CODIGO THEN <<"2", "0">> ELSE <<"B", "E", "T", "A">>] >>

\* C14 as stated: _parse_list_output returns one record per input record, in
\* input order: a record is a maximal run of key/value lines between blank or
\* whitespace-only lines, flushed at a blank line or at the end of the input
\* only when it is not empty, and maps every key of its lines to the rest of
\* the line trimmed, internal blanks kept; the empty input gives no record and
\* the example of two records gives exactly those two.
C14_Original ==
    IsqlRetornou =>
        /\ rows = RegistrosEsperados(output)
        /\ (output = <<<<>>>>) => rows = <<>>
        /\ (output = SaidaDeExemplo) => rows = RegistrosDoExemplo

\* a banner, or a line that is not blank and is no token, blanks and rest
Ruido(line) == ~LinhaEmBranco(line) /\ ~LinhaChaveValor(line)

RECURSIVE SemRuido(_)
SemRuido(o) ==
    IF o = <<>> THEN <<>>
    ELSE IF Ruido(Head(o)) THEN SemRuido(Tail(o))
    ELSE <<Head(o)>> \o SemRuido(Tail(o))

\* C15: _parse_list_output returns normally for every text, and the banner
\* lines (prefix SQL>) and the lines that are not "token, whitespace, rest"
\* are dropped: the records are those of the text with these lines deleted.
C15_RuidoIgnorado ==
    IsqlRetornou =>
        /\ rows = ParseListOutput(SemRuido(output))
        /\ \A i \in 1..Len(rows) : \A k \in DOMAIN rows[i] :
              /\ ~TemSentinela(k)
              /\ \E j \in 1..Len(output) :
                    LinhaChaveValor(output[j]) /\ ChaveDe(output[j]) = k

\* a banner line and a line without value inside a record that is returned
C15_Witness ==
    /\ IsqlRetornou
    /\ Len(output) = 3
    /\ TemSentinela(output[2])
    /\ output[3] = <<"A">>
    /\ Len(rows) = 1
    /\ DOMAIN rows[1] = {<<"B">>}

----------------------------------------------------------------------------
(* _encontrar_cabecalho: a raw table is a sequence of rows, a row a         *)
(* sequence of cells, a cell the sequence of the characters of str(cell).  *)
(* "Serie" stands for the keyword written with its accent.                 *)

Inicial == <<"I", "n", "i", "c", "i", "a", "l">>
Final == <<"F", "i", "n", "a", "l">>
Serie == <<"S", "e", "r", "i", "e">>

\* line 141: the rows looked at
JanelaDeBusca == 20

MaxLinhasBuscaSemJanela(tab) == Len(tab)

MaxLinhasBusca(tab) == IF JanelaDeBusca < Len(tab) THEN JanelaDeBusca ELSE Len(tab)

\* line 145: df.iloc[idx].astype(str).str.strip().str.lower()
LinhaTeste(linha) == [c \in 1..Len(linha) |-> Lower(StripLinha(linha[c]))]

CelulaContemSemLower(col_obrig, celula) == Contem(col_obrig, celula)

\* lines 150-153: col_obrig.lower() in celula
CelulaContem(col_obrig, celula) == Contem(Lower(col_obrig), celula)

\* lines 148-155: one more for every keyword that some cell contains
RECURSIVE ColunasEncontradas(_, _)
ColunasEncontradas(obrigatorias, linha_teste) ==
    IF obrigatorias = <<>> THEN 0
    ELSE (IF \E c \in 1..Len(linha_teste) : CelulaContem(Head(obrigatorias), linha_teste[c])
          THEN 1 ELSE 0)
         + ColunasEncontradas(Tail(obrigatorias), linha_teste)

\* line 158
EhCabecalho(linha, obrigatorias) ==
    ColunasEncontradas(obrigatorias, LinhaTeste(linha)) >= Len(obrigatorias)

\* the rows a SEFAZ export may hold: a title, a header with the three
\* columns among others, the same in another order and case, a header whose
\* one cell names two columns, a header without Final, a data row
LinhaDeTitulo == <<<<"R", "e", "l">>, <<>>>>

LinhasBrutas ==
    {LinhaDeTitulo,
     <<<<"N">>, Inicial \o <<" ", "a">>, <<"F", "I", "N", "A", "L">>,
       <<" ">> \o Serie \o <<" ">>, <<"E", "s", "p">>>>,
     <<<<"S", "E", "R", "I", "E">>, Final, <<"i", "n", "i", "c", "i", "a", "l">>>>,
     <<Serie \o <<" ">> \o Inicial, Final>>,
     <<Inicial \o <<" ", "a">>, Serie>>,
     <<<<"1">>, <<"5">>, <<"1">>>>}

MaxAcima == 21

MaxCorpo == 2

RECURSIVE Repetir(_, _)
Repetir(linha, n) == IF n = 0 THEN <<>> ELSE <<linha>> \o Repetir(linha, n - 1)

\* the tables: title rows, then the rows of the export
TabelasBrutas ==
    {Repetir(LinhaDeTitulo, n) \o corpo :
        n \in 0..MaxAcima, corpo \in SeqAte(LinhasBrutas, MaxCorpo)}

\* the keyword lists _ler_sefaz passes, lines 198 and 205
ListasObrigatorias == {<<Inicial, Final, Serie>>, <<Inicial, Serie>>}

InitCabecalho ==
    /\ op = "cabecalho"
    /\ pc = "buscando"
    /\ df \in TabelasBrutas
    /\ colunas_obrigatorias \in ListasObrigatorias
    /\ idx = 0
    /\ novo_header = <<>>
    /\ novo_df = <<>>
    /\ filepath = None
    /\ erros = <<>>
    /\ carregado = None /\ colunas = None
    /\ resultado = None
    /\ RunParado
    /\ ChamadaParada
    /\ SefazParado
    /\ ArquivosParados
    /\ GuiParada
    /\ IsqlParado

\* one iteration of the loop of lines 143-164
TestarLinha ==
    /\ op = "cabecalho"
    /\ pc = "buscando"
    /\ idx < MaxLinhasBusca(df)
    /\ IF EhCabecalho(df[idx + 1], colunas_obrigatorias)
       THEN /\ novo_header' = [c \in 1..Len(df[idx + 1]) |-> StripLinha(df[idx + 1][c])]
            /\ novo_df' = SubSeq(df, idx + 2, Len(df))
            /\ pc' = "retornou"
            /\ idx' = idx
       ELSE /\ idx' = idx + 1
            /\ UNCHANGED <<novo_header, novo_df, pc>>
    /\ UNCHANGED <<op, resultado, df, colunas_obrigatorias, filepath, erros, carregado, colunas>>
    /\ UNCHANGED <<varsChamada, varsRun, varsSefaz, varsArquivos, varsGui, varsIsql>>

\* lines 166-171: the loop ended without a header
CabecalhoNaoEncontrado ==
    /\ op = "cabecalho"
    /\ pc = "buscando"
    /\ idx >= MaxLinhasBusca(df)
    /\ pc' = "ValueError"
    /\ UNCHANGED <<op, resultado, varsTabela>>
    /\ UNCHANGED <<varsChamada, varsRun, varsSefaz, varsArquivos, varsGui, varsIsql>>

NextCabecalho == TestarLinha \/ CabecalhoNaoEncontrado

SpecCabecalho == InitCabecalho /\ [][NextCabecalho]_vars

----------------------------------------------------------------------------
(* Reading the header found *)

\* every keyword occurs, whatever the case, inside some cell of the row
Qualifica(linha, obrigatorias) ==
    \A k \in 1..Len(obrigatorias) :
        \E c \in 1..Len(linha) : Contem(Lower(obrigatorias[k]), Lower(linha[c]))

\* the same cells in another order
MesmasCelulas(l1, l2) ==
    /\ Len(l1) = Len(l2)
    /\ \E f \in [1..Len(l1) -> 1..Len(l1)] :
          /\ \A i, j \in 1..Len(l1) : i /= j => f[i] /= f[j]
          /\ \A i \in 1..Len(l1) : l2[i] = l1[f[i]]

\* C16: the header selected is the topmost row in which every keyword
\* occurs, case-insensitively, as a substring of some cell (any cell for any
\* keyword, one cell for several), whatever the order of its columns; the
\* rows above it are discarded and the data body is the rows below it, in
\* order.
C16_PrimeiraLinhaQueQualifica ==
    /\ (op = "cabecalho" /\ pc = "retornou") =>
          /\ Qualifica(df[idx + 1], colunas_obrigatorias)
          /\ \A i \in 1..idx : ~Qualifica(df[i], colunas_obrigatorias)
          /\ \A i \in 1..Len(df) :
                MesmasCelulas(df[i], df[idx + 1]) => Qualifica(df[i], colunas_obrigatorias)
          /\ novo_df = [i \in 1..(Len(df) - idx - 1) |-> df[idx + 1 + i]]
    /\ (op = "cabecalho" /\ pc = "ValueError") =>
          \A i \in 1..Len(df) : i <= JanelaDeBusca => ~Qualifica(df[i], colunas_obrigatorias)

\* the header found has its columns in another order and case than the
\* keywords, title rows above it and a data row below it
C16_Witness ==
    /\ op = "cabecalho" /\ pc = "retornou"
    /\ colunas_obrigatorias = <<Inicial, Final, Serie>>
    /\ idx = 3
    /\ df[idx + 1][1] = <<"S", "E", "R", "I", "E">>
    /\ novo_df = <<<<<<"1">>, <<"5">>, <<"1">>>>>>

\* C17: no row beyond the first 20 (index 0..19) is ever selected: when no
\* row of the window qualifies the search fails with the header-not-found
\* error, even if a row of index 20 or more qualifies.
C17_JanelaDeVinteLinhas ==
    /\ (op = "cabecalho" /\ pc = "retornou") => idx <= 19
    /\ (op = "cabecalho" /\ pc = "buscando") => idx <= 20
    /\ (op = "cabecalho" /\ pc \in {"retornou", "ValueError"}) =>
          (pc = "ValueError" <=>
              \A i \in 1..Len(df) : i <= 20 => ~Qualifica(df[i], colunas_obrigatorias))

\* the search failed although the row of index 20 qualifies
C17_Witness ==
    /\ op = "cabecalho" /\ pc = "ValueError"
    /\ Len(df) >= 21
    /\ Qualifica(df[21], colunas_obrigatorias)

----------------------------------------------------------------------------
(* _carregar_dados_brutos: the file is what os.path.exists says, its        *)
(* extension, and the readers that parse it without raising                *)

\* the try blocks, in the order of the source
Estrategias ==
    <<"Excel", "CSV utf-8-sig", "CSV latin1", "CSV latin1 sep=';'", "CSV utf-8", "CSV cp1252">>

Extensoes == {".xlsx", ".xls", ".csv"}

\* str(e) of what a reader raised
Motivos == {"UnicodeDecodeError", "ParserError"}

ArquivosBrutos ==
    [existe : BOOLEAN, ext : Extensoes, legiveis : SUBSET ElementosDe(Estrategias)]

PrimeiraEstrategiaSempreCsv(ext) == 2

\* line 77: the Excel reader is tried when the extension says so
PrimeiraEstrategia(ext) == IF ext \in {".xlsx", ".xls"} THEN 1 ELSE 2

InitCarga ==
    /\ op = "carregar"
    /\ pc = "inicio"
    /\ filepath \in ArquivosBrutos
    /\ erros = <<>>
    /\ carregado = None /\ colunas = None
    /\ idx = 0
    /\ df = <<>>
    /\ colunas_obrigatorias = <<>>
    /\ novo_header = <<>>
    /\ novo_df = <<>>
    /\ resultado = None
    /\ RunParado
    /\ ChamadaParada
    /\ SefazParado
    /\ ArquivosParados
    /\ GuiParada
    /\ IsqlParado

\* lines 69-77
VerificarArquivo ==
    /\ op = "carregar"
    /\ pc = "inicio"
    /\ IF filepath.existe
       THEN /\ pc' = "tentando"
            /\ idx' = PrimeiraEstrategia(filepath.ext)
       ELSE /\ pc' = "FileNotFoundError"
            /\ idx' = idx
    /\ UNCHANGED <<op, resultado, filepath, erros, carregado>>
    /\ UNCHANGED <<df, colunas_obrigatorias, novo_header, novo_df, colunas>>
    /\ UNCHANGED <<varsChamada, varsRun, varsSefaz, varsArquivos, varsGui, varsIsql>>

\* one try block of lines 78-119: return the table, or note the failure and
\* go on to the next block
TentarEstrategia ==
    /\ op = "carregar"
    /\ pc = "tentando"
    /\ idx <= Len(Estrategias)
    /\ IF Estrategias[idx] \in filepath.legiveis
       THEN /\ carregado' = Estrategias[idx]
            /\ pc' = "retornou"
            /\ UNCHANGED <<erros, idx>>
       ELSE /\ \E motivo \in Motivos :
                  erros' = Append(erros, [estrategia |-> Estrategias[idx], motivo |-> motivo])
            /\ idx' = idx + 1
            /\ UNCHANGED <<carregado, pc>>
    /\ UNCHANGED <<op, resultado, filepath>>
    /\ UNCHANGED <<df, colunas_obrigatorias, novo_header, novo_df, colunas>>
    /\ UNCHANGED <<varsChamada, varsRun, varsSefaz, varsArquivos, varsGui, varsIsql>>

\* lines 121-126: the exception whose message lists erros
TodasFalharam ==
    /\ op = "carregar"
    /\ pc = "tentando"
    /\ idx > Len(Estrategias)
    /\ pc' = "Exception"
    /\ resultado' = [ext |-> filepath.ext, tentativas |-> erros]
    /\ UNCHANGED <<op, varsTabela>>
    /\ UNCHANGED <<varsChamada, varsRun, varsSefaz, varsArquivos, varsGui, varsIsql>>

NextCarga == VerificarArquivo \/ TentarEstrategia \/ TodasFalharam

SpecCarga == InitCarga /\ [][NextCarga]_vars

----------------------------------------------------------------------------
(* Reading the table loaded *)

\* the priority order for an extension: the spreadsheet reader first when the
\* extension implies it, then the text encodings and separators
OrdemDePrioridade(ext) ==
    IF ext \in {".xlsx", ".xls"}
    THEN <<"Excel", "CSV utf-8-sig", "CSV latin1", "CSV latin1 sep=';'", "CSV utf-8",
           "CSV cp1252">>
    ELSE <<"CSV utf-8-sig", "CSV latin1", "CSV latin1 sep=';'", "CSV utf-8", "CSV cp1252">>

EstrategiasEm(tentativas) == [i \in 1..Len(tentativas) |-> tentativas[i].estrategia]

\* C18: the strategies are tried in one fixed priority order; the table of
\* the first that parses without error is returned and no later one is
\* tried; the load fails only when every strategy attempted has failed, with
\* an error that lists each of them with its failure reason.
C18_PrimeiraEstrategiaVence ==
    (op = "carregar") =>
        LET ordem == OrdemDePrioridade(filepath.ext)
        IN  /\ pc \in {"tentando", "retornou", "Exception"} =>
                  /\ filepath.existe
                  /\ Len(erros) <= Len(ordem)
                  /\ EstrategiasEm(erros) = SubSeq(ordem, 1, Len(erros))
                  /\ \A i \in 1..Len(erros) : erros[i].estrategia \notin filepath.legiveis
            /\ pc = "retornou" =>
                  /\ Len(erros) < Len(ordem)
                  /\ carregado = ordem[Len(erros) + 1]
                  /\ carregado \in filepath.legiveis
            /\ pc = "Exception" =>
                  /\ \A i \in 1..Len(ordem) : ordem[i] \notin filepath.legiveis
                  /\ EstrategiasEm(resultado.tentativas) = ordem
                  /\ \A i \in 1..Len(ordem) : resultado.tentativas[i].motivo \in Motivos
            /\ pc = "FileNotFoundError" => (~filepath.existe /\ erros = <<>>)

\* a CSV file named .xls: the spreadsheet reader and two text readers fail,
\* the reader with the separator ';' returns, the two after it are not tried
C18_Witness ==
    /\ op = "carregar" /\ pc = "retornou"
    /\ filepath.ext = ".xls"
    /\ filepath.legiveis = {"CSV latin1 sep=';'", "CSV cp1252"}
    /\ carregado = "CSV latin1 sep=';'"
    /\ Len(erros) = 3

----------------------------------------------------------------------------
(* The documents extracted from the pasted text *)

\* the trailing digits of the number part of every line that has some
NumerosDoTexto == {texto_bruto[i].num : i \in {j \in 1..Len(texto_bruto) : texto_bruto[j].num /= <<>>}}

\* C19 as stated: for every non-empty line, tagged with its series or not,
\* the document recorded is the trailing run of digits of the number part (a
\* list prefix such as "24. " is no part of it), and a line without trailing
\* digits contributes no entry.
C19_Original ==
    /\ (op = "avancada" /\ pc /= "inicio") =>
          CuponsExtraidos = {Doc("", n) : n \in NumerosDoTexto}
    /\ (op = "analise_db" /\ pc = "loop") => pendentes \subseteq NumerosDoTexto

\* a decimal string without leading zeros
Canonico(num) == num /= <<>> /\ (Len(num) > 1 => num[1] /= 0)

\* C20 as stated: every document number produced by an extraction (interval
\* table, status table, free text) is a non-negative integer written without
\* leading zeros, so two entries that denote the same number are the same
\* string and are never counted as two documents.
C20_Original ==
    /\ (op = "avancada" /\ pc /= "inicio") =>
          LET numeros == {c \in CuponsExtraidos : c.pre = ""}
          IN  /\ \A c \in numeros : Canonico(c.num)
              /\ \A c1, c2 \in numeros : IntDe(c1.num) = IntDe(c2.num) => c1 = c2
    /\ (op = "analise_db" /\ pc = "loop") =>
          /\ \A n \in pendentes : Canonico(n)
          /\ \A n1, n2 \in pendentes : IntDe(n1) = IntDe(n2) => n1 = n2
    /\ (op \in {"discrepancia", "comparacao"}) =>
          /\ \A n \in docs_sefaz : Canonico(n)
          /\ \A n \in DOMAIN relatorio_sistema : Canonico(n)

----------------------------------------------------------------------------
(* The set comparison *)

ComparacaoRetornou == op = "comparacao" /\ pc = "retornou" /\ resultado.erro = None

\* the two sets the comparison read from its files
SetsLidos == LerOsDois(arquivo_a, arquivo_b, serie_alvo)

\* the set read from one file when its format is detected on its own:
\* interval table first, status table only if that fails
DetectadoSozinho(arq, alvo) ==
    IF LerComoSefaz(arq, alvo).exc = None THEN LerComoSefaz(arq, alvo)
    ELSE LerComoRelatorio(arq, alvo)

ConjuntoA == ElementosDaLista(resultado.em_ambos) \cup ElementosDaLista(resultado.so_no_arquivo_a)

ConjuntoB == ElementosDaLista(resultado.em_ambos) \cup ElementosDaLista(resultado.so_no_arquivo_b)

\* C27 as stated: in the set comparison the format of each input file is
\* detected independently of the other file, interval-table parsing first and
\* status-table parsing only if interval parsing of that file fails; the
\* comparison fails only after all four format pairings have failed.
C27_Original ==
    (op = "comparacao" /\ pc = "retornou") =>
        LET a == DetectadoSozinho(arquivo_a, serie_alvo)
            b == DetectadoSozinho(arquivo_b, serie_alvo)
        IN  IF a.exc = None /\ b.exc = None
            THEN /\ resultado.erro = None
                 /\ ConjuntoA = a.docs
                 /\ ConjuntoB = b.docs
            ELSE resultado.erro /= None

\* C21: the set comparison is symmetric under swapping its inputs: the
\* only-in-A list of comparing (A, B) is the only-in-B list of comparing
\* (B, A), and the in-both list is the same for (A, B) and (B, A).
C21_ComparacaoSimetrica ==
    ComparacaoRetornou =>
        \A trocado \in Comparar(SetsLidos.b, SetsLidos.a) :
            /\ resultado.so_no_arquivo_a = trocado.so_no_arquivo_b
            /\ resultado.so_no_arquivo_b = trocado.so_no_arquivo_a
            /\ resultado.em_ambos = trocado.em_ambos
            /\ resultado.count_a = trocado.count_b

\* two sets that overlap and each hold a document of their own
C21_Witness ==
    /\ ComparacaoRetornou
    /\ Len(resultado.so_no_arquivo_a) >= 1
    /\ Len(resultado.so_no_arquivo_b) >= 1
    /\ Len(resultado.em_ambos) >= 1

----------------------------------------------------------------------------
(* The columns of the header found: _ler_sefaz and _ler_relatorio pick one  *)
(* column for each of their roles                                           *)

DocLabel == <<"D", "o", "c">>
DocFiscal == <<"D", "o", "c", " ", "F", "i", "s", "c", "a", "l">>
Status == <<"S", "t", "a", "t", "u", "s">>

Rotulos ==
    {Inicial, <<"I", "N", "I", "C", "I", "A", "L">>, Final, <<"F", "I", "N", "A", "L">>,
     Serie, <<"S", "E", "R", "I", "E">>, DocLabel, <<"D", "O", "C">>, DocFiscal,
     Status, <<"S", "T", "A", "T", "U", "S">>}

MaxColunas == 3

\* df.columns: labels that differ, in any order
Cabecalhos ==
    {h \in SeqAte(Rotulos, MaxColunas) :
        /\ h /= <<>>
        /\ \A i, j \in 1..Len(h) : i /= j => h[i] /= h[j]}

\* 'palavra' in col_lower
RotuloContem(palavra, col) == Contem(Lower(palavra), Lower(col))

\* lines 214-216
ColunasSefazVazias == [col_inicial |-> None, col_final |-> None, col_serie |-> None]

\* lines 223-231: one column
ColunaSefaz(cols, col) ==
    [col_inicial |-> IF RotuloContem(Inicial, col) /\ cols.col_inicial = None
                     THEN col ELSE cols.col_inicial,
     col_final |-> IF RotuloContem(Final, col) /\ cols.col_final = None
                   THEN col ELSE cols.col_final,
     col_serie |-> IF RotuloContem(Serie, col) THEN col ELSE cols.col_serie]

\* lines 300-302
ColunasRelatorioVazias == [col_doc |-> None, col_serie |-> None, col_status |-> None]

\* lines 306-314: one column
ColunaRelatorio(cols, col) ==
    [col_doc |-> IF RotuloContem(DocLabel, col) /\ RotuloContem(<<"f", "i", "s", "c", "a", "l">>, col)
                 THEN col
                 ELSE IF RotuloContem(DocLabel, col) /\ cols.col_doc = None
                      THEN col ELSE cols.col_doc,
     col_serie |-> IF RotuloContem(Serie, col) THEN col ELSE cols.col_serie,
     col_status |-> IF RotuloContem(Status, col) THEN col ELSE cols.col_status]

InitColunas ==
    /\ op \in {"colunas_sefaz", "colunas_relatorio"}
    /\ pc = "inicio"
    /\ novo_header \in Cabecalhos
    /\ idx = 0
    /\ colunas = None
    /\ df = <<>>
    /\ colunas_obrigatorias = <<>>
    /\ novo_df = <<>>
    /\ filepath = None
    /\ erros = <<>>
    /\ carregado = None
    /\ resultado = None
    /\ RunParado
    /\ ChamadaParada
    /\ SefazParado
    /\ ArquivosParados
    /\ GuiParada
    /\ IsqlParado

\* lines 214-216 and 300-302
IniciarColunas ==
    /\ op \in {"colunas_sefaz", "colunas_relatorio"}
    /\ pc = "inicio"
    /\ colunas' = IF op = "colunas_sefaz" THEN ColunasSefazVazias ELSE ColunasRelatorioVazias
    /\ pc' = "colunas"
    /\ UNCHANGED <<op, resultado, filepath, erros, carregado, df, colunas_obrigatorias, idx,
                   novo_header, novo_df>>
    /\ UNCHANGED <<varsChamada, varsRun, varsSefaz, varsArquivos, varsGui, varsIsql>>

\* one iteration of the loop of lines 221-231
VerColunaSefaz ==
    /\ op = "colunas_sefaz"
    /\ pc = "colunas"
    /\ idx < Len(novo_header)
    /\ colunas' = ColunaSefaz(colunas, novo_header[idx + 1])
    /\ idx' = idx + 1
    /\ UNCHANGED <<op, pc, resultado, filepath, erros, carregado, df, colunas_obrigatorias,
                   novo_header, novo_df>>
    /\ UNCHANGED <<varsChamada, varsRun, varsSefaz, varsArquivos, varsGui, varsIsql>>

\* lines 233-234
FimColunasSefaz ==
    /\ op = "colunas_sefaz"
    /\ pc = "colunas"
    /\ idx = Len(novo_header)
    /\ pc' = IF colunas.col_inicial = None \/ colunas.col_serie = None
             THEN "ValueError" ELSE "localizou"
    /\ UNCHANGED <<op, resultado, varsTabela>>
    /\ UNCHANGED <<varsChamada, varsRun, varsSefaz, varsArquivos, varsGui, varsIsql>>

\* one iteration of the loop of lines 305-314
VerColunaRelatorio ==
    /\ op = "colunas_relatorio"
    /\ pc = "colunas"
    /\ idx < Len(novo_header)
    /\ colunas' = ColunaRelatorio(colunas, novo_header[idx + 1])
    /\ idx' = idx + 1
    /\ UNCHANGED <<op, pc, resultado, filepath, erros, carregado, df, colunas_obrigatorias,
                   novo_header, novo_df>>
    /\ UNCHANGED <<varsChamada, varsRun, varsSefaz, varsArquivos, varsGui, varsIsql>>

\* lines 316-317
FimColunasRelatorio ==
    /\ op = "colunas_relatorio"
    /\ pc = "colunas"
    /\ idx = Len(novo_header)
    /\ pc' = IF colunas.col_doc = None \/ colunas.col_serie = None \/ colunas.col_status = None
             THEN "ValueError" ELSE "localizou"
    /\ UNCHANGED <<op, resultado, varsTabela>>
    /\ UNCHANGED <<varsChamada, varsRun, varsSefaz, varsArquivos, varsGui, varsIsql>>

NextColunas ==
    \/ IniciarColunas
    \/ VerColunaSefaz
    \/ FimColunasSefaz
    \/ VerColunaRelatorio
    \/ FimColunasRelatorio

SpecColunas == InitColunas /\ [][NextColunas]_vars

\* the first label, from left to right, that contains the keyword whatever
\* the case; None when no label does
PrimeiroRotulo(palavra, header) ==
    LET com == {i \in 1..Len(header) : Contem(Lower(palavra), Lower(header[i]))}
    IN  IF com = {} THEN None
        ELSE header[CHOOSE i \in com : \A j \in com : i <= j]

\* C26 as stated: when several column labels contain a role's keyword
\* case-insensitively, the column used for the role is the first such label
\* from left to right, for every role (Inicial, Final, Serie, Doc, Status).
C26_Original ==
    /\ (op = "colunas_sefaz" /\ pc = "localizou") =>
          /\ colunas.col_inicial = PrimeiroRotulo(Inicial, novo_header)
          /\ colunas.col_final = PrimeiroRotulo(Final, novo_header)
          /\ colunas.col_serie = PrimeiroRotulo(Serie, novo_header)
    /\ (op = "colunas_relatorio" /\ pc = "localizou") =>
          /\ colunas.col_doc = PrimeiroRotulo(DocLabel, novo_header)
          /\ colunas.col_serie = PrimeiroRotulo(Serie, novo_header)
          /\ colunas.col_status = PrimeiroRotulo(Status, novo_header)

----------------------------------------------------------------------------
(* The buckets of executar_analise_db *)

Baldes == {"prontos_para_inutilizar", "autorizados", "cancelados", "nao_encontrados",
           "outros_erros"}

\* the coupon of an entry: the entries of outros_erros carry a text with it
CupomDaEntrada(balde, entrada) == IF balde = "outros_erros" THEN entrada.cupom ELSE entrada

\* the places <<bucket, index>> of the coupon c in the buckets bs
LugaresDe(bs, c) ==
    {l \in Baldes \X (1..8) :
        /\ l[2] <= Len(bs[l[1]])
        /\ CupomDaEntrada(l[1], bs[l[1]][l[2]]) = c}

\* len() of the five buckets, added up
RECURSIVE SomaDosBaldes(_, _)
SomaDosBaldes(bs, nomes) ==
    IF nomes = {} THEN 0
    ELSE LET n == CHOOSE x \in nomes : TRUE
         IN  Len(bs[n]) + SomaDosBaldes(bs, nomes \ {n})

\* C30: in executar_analise_db, once the connection is open, every extracted
\* coupon ends in exactly one of the five buckets, a coupon whose query or
\* classification raised included, so the sizes of the five buckets sum to
\* total_processados.
C30_CadaCupomEmUmBalde ==
    /\ (op = "analise_db" /\ pc = "loop") =>
          \A c \in ExtrairCuponsDoTexto(texto_bruto) :
              Cardinality(LugaresDe(listas, c)) = IF c \in pendentes THEN 0 ELSE 1
    /\ (op = "analise_db" /\ pc = "retornou" /\ resultado.erro = None) =>
          /\ \A c \in ExtrairCuponsDoTexto(texto_bruto) :
                Cardinality(LugaresDe(resultado, c)) = 1
          /\ SomaDosBaldes(resultado, Baldes) = resultado.total_processados
          /\ resultado.total_processados = Cardinality(ExtrairCuponsDoTexto(texto_bruto))

\* two coupons, one whose query raised and one that was not found
C30_Witness ==
    /\ op = "analise_db" /\ pc = "retornou" /\ resultado.erro = None
    /\ resultado.total_processados = 2
    /\ Len(resultado.outros_erros) = 1
    /\ resultado.outros_erros[1].texto = "Erro"
    /\ Len(resultado.nao_encontrados) = 1

====
